---- MODULE Spec2Model ----
(***************************************************************************)
(* Canvas kiosk shell: the countdown timer (renderer.js, TimerModule of    *)
(* v1.4.0, CanvasSystem of v1.4.1) and the idle/dim tracker (CanvasSystem  *)
(* v1.4.0 and v1.4.1), the night-shift overlay and the settings document  *)
(* kept by the main process (main.js, and the chokidar variant of it).     *)
(* Time advances in whole seconds for the timer and the idle tracker and   *)
(* in whole minutes for the night-shift clock.  Purely decorative button   *)
(* transforms (scale(0.96) bounce, haptic visualizer) carry no state any   *)
(* property reads and are left out of the state.                           *)
(***************************************************************************)
EXTENDS Integers, Sequences, FiniteSets, TLC

VARIABLES
    build,           \* which of the three shells is running
    timerSeconds,    \* timerSeconds / TimerModule.seconds
    isTimerRunning,  \* isTimerRunning / TimerModule.isRunning
    timerInterval,   \* TRUE iff the interval handle is non-null
    liveIntervals,   \* number of setInterval tick callbacks still scheduled
    timerColor,      \* timerDisplay.style.color ("" = stylesheet colour)
    timerAnimation,  \* timerDisplay.style.animation ("" or "pulse")
    startBtn,        \* startTimer button caption
    rafPending,      \* v1.4.0: an updateDisplay frame callback is queued
    fadePending,     \* renderer.js: the 1 s completion colour timeout is queued
    last,            \* history: the last timer operation and the state it saw
    runCompletions,  \* history: completion signals since the last startTimer
    reachedZero,     \* history: a tick of this run has brought remaining to 0
    scenario,        \* history: progress of addTime(60); start; ticks
    phase,           \* position of CanvasSystem.init: "boot", "loading", "ready"
    persisted,       \* contents of config/settings.json as get-config returns it
    config,          \* CanvasSystem.config (Null before loadConfig)
    idleTimer,       \* the idleTimer handle: "null", "pending" or "fired"
    idleTimeouts,    \* pending goInactive timeouts: seconds left, newest last
    bodyOpacity,     \* document.body.style.opacity ("" = stylesheet value)
    tickerShown,     \* the ticker is visible (class 'visible' / opacity '1')
    lastIdle,        \* history: the last idle-related step and its event
    sinceReset,      \* history: seconds elapsed since the last resetIdleTimer
    resetRead,       \* history: config.display.dimAfter as that reset read it
    lastSet,         \* history: the last value updateSetting gave dimAfter (0 = none)
    clock,           \* wall clock: getHours() * 60 + getMinutes()
    overlay,         \* #nightShift: inline style.opacity and class 'active'
    nsInterval,      \* the 60 s checkNightShift interval is installed
    rolled,          \* minute boundaries passed since that interval last fired
    lastNight,       \* history: the last night-shift step and what it computed
    win,             \* history: the window, in minutes, the settings file names
    elapsed,         \* history: minutes the clock has advanced
    nsStartup,       \* history: did init run checkNightShift ("none" before init)
    host,            \* the main process serving get-config / save-config
    logs,            \* who has logged a configuration read problem
    lastStore,       \* history: the last load or save, the fields of the file it found
    origFile,        \* history: settings.json as the first start found it
    roundTrip,       \* history: progress of load; save; fresh load
    restarts,        \* history: times the window has been reloaded
    writes,          \* save-config calls the main process has not finished
    diskOk,          \* settings.json can be written (no EACCES / ENOSPC)
    dirs,            \* the directories under userData that exist
    saveSeen,        \* history: how save-config calls have settled
    updates,         \* history: number of updateSetting calls so far
    lastUpd,         \* history: the last updateSetting call and its write
    readOverlap,     \* history: the last get-config ran during a writeFile
    flashDir,        \* names of the files in system/flash
    processedDir,    \* names of the files in system/flash/processed
    everDropped,     \* history: names of the files ever put into system/flash
    fsFault,         \* what the file system refuses: "none", "readdir", "rename"
    listings,        \* fs.readdir calls whose callback has not run yet
    events,          \* chokidar 'add' events not yet handled
    channel,         \* 'flash-update' messages on their way to the renderer
    sent,            \* history: 'flash-update' messages sent, per file name
    uncaught,        \* an exception has escaped a main-process callback
    flashLogs,       \* what the watcher has logged
    lastFlash,       \* history: the last watcher step
    sinceLastCheck,  \* poller: ms between lastCheck and the last interval tick
    polls,           \* history: firings of the polling interval so far
    pollers,         \* main process: flash pollers / watchers installed (0 = it has quit)
    windowOpen,      \* main process: the window mainWindow names is open
    sentClosed,      \* history: a 'flash-update' send was tried on a closed window
    modal,           \* renderer, v1.4.0: the update modal of handleFlashUpdate
    tickerHides,     \* renderer, v1.4.1: pending 3 s timeouts hiding the ticker
    perfLoops,       \* renderer: requestAnimationFrame loops of startPerformanceMonitor
    listeners,       \* renderer: listeners on 'flash-update'
    cleanup,         \* renderer: what onFlashUpdate returned
    delivered        \* history: handleFlashUpdate calls, per file name

timerVars == <<timerSeconds, isTimerRunning, timerInterval, liveIntervals,
               timerColor, timerAnimation, startBtn, rafPending, fadePending>>

histVars == <<last, runCompletions, reachedZero, scenario>>

idleVars == <<phase, persisted, config, idleTimer, idleTimeouts, bodyOpacity,
              tickerShown>>

idleHist == <<lastIdle, sinceReset, resetRead, lastSet>>

nightVars == <<clock, overlay, nsInterval, rolled>>

nightHist == <<lastNight, win, elapsed, nsStartup>>

storeVars == <<host, logs, lastStore, origFile, roundTrip, restarts>>

saveVars == <<writes, diskOk, dirs, saveSeen, updates, lastUpd>>

flashVars == <<flashDir, processedDir, everDropped, fsFault, listings,
               events, channel, sent, uncaught, flashLogs, lastFlash,
               sinceLastCheck, polls, pollers, windowOpen, sentClosed>>

subVars == <<listeners, cleanup, delivered, modal, tickerHides, perfLoops>>

\* the save-config traffic and the flash-update pipeline
ioVars == <<saveVars, readOverlap, flashVars, subVars>>

\* everything outside the timer and the idle tracker
shellVars == <<nightVars, nightHist, storeVars, ioVars>>

vars == <<build, timerVars, histVars, idleVars, idleHist, shellVars>>

----------------------------------------------------------------------------
(* Constants of the source *)

Builds == {"renderer", "v140", "v141"}

Grey == "#86868B"

Orange == "#FF9500"

Blue == "#007AFF"

Red == "#FF3B30"

Green == "#34C759"

OneMinute == 60

FiveMinutes == 300

TenMinutes == 600

UrgentThreshold == 10

RendererPulse == 5

CanvasPulse == 3

\* largest remaining time the model lets addTime build up
MaxTimerSeconds == 610

\* the add buttons each shell binds
AddAmounts(b) ==
    IF b = "renderer" THEN {OneMinute, FiveMinutes}
    ELSE {OneMinute, FiveMinutes, TenMinutes}

\* the shells that bind a separate pause button
HasPauseButton(b) == b \in {"v140", "v141"}

PulseThreshold(b) == IF b = "renderer" THEN RendererPulse ELSE CanvasPulse

----------------------------------------------------------------------------
(* Pure helpers *)

\* updateTimerDisplay / updateDisplay: the colour chosen for a timer state
DisplayColor(secs, running) ==
    IF secs = 0 THEN Grey ELSE IF running THEN Orange ELSE Blue

\* the colour right after a call of the display refresh: v1.4.0 defers the
\* refresh to the next animation frame, the other two apply it at once
Refreshed(b, secs, running, cur) ==
    IF b = "v140" THEN cur ELSE DisplayColor(secs, running)

RafAfterRefresh(b, cur) == IF b = "v140" THEN TRUE ELSE cur

\* pauseTimer's colour assignment
PausedColor(b, cur) ==
    IF b = "v140" THEN Orange ELSE IF b = "v141" THEN Blue ELSE cur

\* addTime / addTimerTime: the new remaining time
AddedSecondsUnguarded(running, secs, s) == secs + s

AddedSeconds(running, secs, s) == IF ~running THEN secs + s ELSE secs

\* toggleTimer's early return
ToggleIgnoredNever(secs) == FALSE

ToggleIgnored(secs) == secs = 0

\* pauseTimer: the interval the handle names is cleared
IntervalsAfterPauseLeaky(handle, live) == live

IntervalsAfterPause(handle, live) == IF handle THEN live - 1 ELSE live

\* pauseTimer: the handle is set to null
HandleAfterPauseKept(handle) == handle

HandleAfterPause(handle) == FALSE

\* the tick callback's branch: decrement while remaining > 0
TickDecrements(secs) == secs > 0

\* the constructor's timer fields: a reloaded window starts from zero
\* whatever the timer held before
ConstructedSecondsKept(before) == before

ConstructedSeconds(before) == 0

Op(name, arg) ==
    [op |-> name, arg |-> arg, preSeconds |-> timerSeconds,
     preRunning |-> isTimerRunning]

NoScenario == [stage |-> "none", ticks |-> 0]

----------------------------------------------------------------------------
(* Configuration documents: a map from dotted paths (sections and leaves)  *)
(* to values; a missing key is a missing field.                            *)

Sections == {"display", "display.nightShift", "time", "animations", "features"}

\* this.config before loadConfig has run
Null == ("null" :> TRUE)

IsNull(c) == "null" \in DOMAIN c

\* a settings.json whose text JSON.parse rejects, or that cannot be read
Corrupt == ("corrupt" :> TRUE)

IsCorrupt(c) == "corrupt" \in DOMAIN c

\* a get-config invocation that rejects
Rejected == ("rejected" :> TRUE)

IsRejected(c) == "rejected" \in DOMAIN c

\* the get-config handler of main process h, on settings file f
GetConfig(h, f) ==
    IF IsCorrupt(f)
    THEN IF h = "main.js" THEN Null ELSE Rejected
    ELSE f

HostTimezone == "America/New_York"

\* the two main processes: main.js and its chokidar variant
Hosts == {"main.js", "chokidar"}

\* the main process of the same version as shell b
HostOf(b) == IF b = "v140" THEN "chokidar" ELSE "main.js"

Digits == <<"0", "1", "2", "3", "4", "5", "6", "7", "8", "9">>

DigitChar(d) == Digits[d + 1]

DigitValue(ch) == CHOOSE d \in 0..9 : Digits[d + 1] = ch

\* the minutes of a day, as getHours() * 60 + getMinutes() yields them
MinutesOfDay == 0..(24 * 60 - 1)

\* the characters of the 'HH:MM' string that names minute m of the day
TimeString(m) ==
    <<DigitChar((m \div 60) \div 10), DigitChar((m \div 60) % 10), ":",
      DigitChar((m % 60) \div 10), DigitChar((m % 60) % 10)>>

\* timeStr.split(':')
RECURSIVE SplitColon(_)
SplitColon(str) ==
    LET colons == {i \in 1..Len(str) : str[i] = ":"}
    IN IF colons = {} THEN <<str>>
       ELSE LET i == CHOOSE j \in colons : \A k \in colons : j <= k
            IN <<SubSeq(str, 1, i - 1)>>
               \o SplitColon(SubSeq(str, i + 1, Len(str)))

\* Number(str) of a string of decimal digits
RECURSIVE Number(_)
Number(str) ==
    IF str = <<>> THEN 0
    ELSE Number(SubSeq(str, 1, Len(str) - 1)) * 10 + DigitValue(str[Len(str)])

\* timeToMinutes(timeStr)
TimeToMinutes(timeStr) ==
    LET parts == SplitColon(timeStr)
    IN Number(parts[1]) * 60 + Number(parts[2])

DefaultDimAfter == 120

\* getDefaultConfig()
DefaultConfig(b) ==
    [k \in Sections |-> "{}"] @@
    ("version" :> (IF b = "v140" THEN "1.4.0" ELSE "1.4.1")) @@
    ("display.brightness" :> 100) @@
    ("display.dimAfter" :> DefaultDimAfter) @@
    ("display.nightShift.enabled" :> FALSE) @@
    ("display.nightShift.startTime" :> TimeString(22 * 60)) @@
    ("display.nightShift.endTime" :> TimeString(7 * 60)) @@
    ("display.nightShift.warmth" :> "0.5") @@
    ("time.format" :> "12h") @@
    ("time.timezone" :> HostTimezone) @@
    ("animations.intensity" :> "medium") @@
    ("animations.springPhysics" :> TRUE) @@
    ("animations.durationMultiplier" :> 1) @@
    ("features.hapticFeedback" :> TRUE) @@
    ("features.devTools" :> FALSE) @@
    ("features.performanceMonitor" :> FALSE) @@
    (IF b = "v140" THEN ("features.debugMode" :> FALSE) ELSE <<>>)

\* the document without key k
Without(c, k) == [x \in DOMAIN c \ {k} |-> c[x]]

\* every field either version's schema names
SchemaFields == DOMAIN DefaultConfig("v140")

\* the schema's parent of a field ("" for a top-level field)
SchemaParent(k) ==
    IF k \in {"display.brightness", "display.dimAfter", "display.nightShift"}
    THEN "display"
    ELSE IF k \in {"display.nightShift.enabled", "display.nightShift.startTime",
                   "display.nightShift.endTime", "display.nightShift.warmth"}
    THEN "display.nightShift"
    ELSE IF k \in {"time.format", "time.timezone"} THEN "time"
    ELSE IF k \in {"animations.intensity", "animations.springPhysics",
                   "animations.durationMultiplier"}
    THEN "animations"
    ELSE IF k \in {"features.hapticFeedback", "features.devTools",
                   "features.performanceMonitor", "features.debugMode"}
    THEN "features"
    ELSE ""

\* field k and everything nested in it
Under(k) ==
    {x \in SchemaFields :
        \/ x = k
        \/ SchemaParent(x) = k
        \/ SchemaParent(SchemaParent(x)) = k}

\* the document without field k and what is nested in it
Drop(c, k) == [x \in DOMAIN c \ Under(k) |-> c[x]]

\* the JSON type of a schema field's value
SchemaType ==
    [k \in SchemaFields |->
        IF k \in Sections THEN "object"
        ELSE IF k \in {"display.brightness", "display.dimAfter",
                       "animations.durationMultiplier"}
        THEN "number"
        ELSE IF k \in {"display.nightShift.enabled",
                       "animations.springPhysics", "features.hapticFeedback",
                       "features.devTools", "features.performanceMonitor",
                       "features.debugMode"}
        THEN "boolean"
        ELSE "string"]

\* the JSON type of the value of field k
FieldType(k) == IF k \in SchemaFields THEN SchemaType[k] ELSE "string"

\* the decimal digits JSON.stringify writes for a number
RECURSIVE NumberText(_)
NumberText(n) ==
    IF n < 10 THEN <<DigitChar(n)>>
    ELSE NumberText(n \div 10) \o <<DigitChar(n % 10)>>

\* JSON.stringify of one value: the token written for it
Encode(type, v) ==
    IF type = "object" THEN [token |-> "{"]
    ELSE IF type = "number" THEN [token |-> "digits", text |-> NumberText(v)]
    ELSE IF type = "boolean"
    THEN [token |-> "word", text |-> IF v THEN "true" ELSE "false"]
    ELSE [token |-> "quoted", text |-> v]

\* JSON.parse of one token
Decode(type, t) ==
    IF t.token = "{" THEN "{}"
    ELSE IF t.token = "digits" THEN Number(t.text)
    ELSE IF t.token = "word" THEN t.text = "true"
    ELSE t.text

\* JSON.stringify(config, null, 2): every field present, as its token
JsonStringify(c) == [k \in DOMAIN c |-> Encode(FieldType(k), c[k])]

\* JSON.parse(data)
JsonParse(text) == [k \in DOMAIN text |-> Decode(FieldType(k), text[k])]

\* save-config: settings.json, as get-config will parse it, after
\* writeFile(configPath, JSON.stringify(config, null, 2)) over the file old
FileAfterSaveMerged(old, c) ==
    IF IsNull(old) \/ IsCorrupt(old) THEN JsonParse(JsonStringify(c))
    ELSE JsonParse(JsonStringify(c)) @@ old

FileAfterSave(old, c) == JsonParse(JsonStringify(c))

\* the document with key k set to v
WithDropped(c, k, v) == c

With(c, k, v) == (k :> v) @@ c

\* this.config?.display?.dimAfter, 0 standing for undefined
DimAfterRead(c) ==
    IF IsNull(c) \/ "display" \notin DOMAIN c
       \/ "display.dimAfter" \notin DOMAIN c
    THEN 0 ELSE c["display.dimAfter"]

\* (this.config?.display?.dimAfter || 120), in seconds
IdleDelayFixed(c) == DefaultDimAfter

IdleDelay(c) == IF DimAfterRead(c) = 0 THEN DefaultDimAfter ELSE DimAfterRead(c)

\* applyConfig / applyDisplaySettings + applyAnimationSettings dereference
\* these sections and throw a TypeError when one is missing
ApplyThrows(b, c) ==
    \/ "display" \notin DOMAIN c
    \/ "features" \notin DOMAIN c
    \/ b = "v140" /\ "animations" \notin DOMAIN c

\* this.config.features.performanceMonitor is truthy
PerfEnabled(c) ==
    /\ ~IsNull(c)
    /\ "features.performanceMonitor" \in DOMAIN c
    /\ c["features.performanceMonitor"] = TRUE

\* startPerformanceMonitor(): the frame loops running after the call.
\* v1.4.0 returns when the feature is off; v1.4.1 has no test and no
\* handle, and neither version ever cancels a loop
StartPerformanceMonitor(b, c, n) ==
    IF b = "v140" /\ ~PerfEnabled(c) THEN n ELSE n + 1

\* the frame loops after the apply step of updateSetting / loadConfig:
\* v1.4.1's applyConfig starts one when the feature is on, v1.4.0's
\* applyDisplaySettings only shows or hides the overlay
LoopsAfterApply(b, c, n) ==
    IF b = "v141" /\ PerfEnabled(c) THEN StartPerformanceMonitor(b, c, n)
    ELSE n

\* values the settings layer offers for display.dimAfter
DimChoices(b) ==
    IF b = "v141" THEN {60, 120, 300} ELSE {30 * k : k \in 1..10}

\* dimAfter values found in settings.json when the shell starts
PersistedDimChoices == {5, 60, DefaultDimAfter}

\* the events the model delivers to the document
DomEvents ==
    {"mousedown", "mousemove", "keydown", "keypress", "wheel", "touchstart",
     "touchmove", "mouseup"}

\* the events whose capture listener calls resetIdleTimer
IdleEvents(b) ==
    IF b = "v141"
    THEN {"mousedown", "mousemove", "keydown", "wheel", "touchstart"}
    ELSE {"mousedown", "mousemove", "keypress", "wheel", "touchstart",
          "touchmove"}

\* goInactive's body opacity
DimOpacity(b) == IF b = "v141" THEN "0.3" ELSE "0.2"

\* resetIdleTimer's treatment of the ticker: only v1.4.1 hides it
TickerAfterReset(b, shown) == IF b = "v141" THEN FALSE ELSE shown

\* clearTimeout(this.idleTimer): the newest timeout, if still pending, goes
CancelIdleNever(handle, q) == q

CancelIdle(handle, q) ==
    IF handle = "pending" THEN SubSeq(q, 1, Len(q) - 1) ELSE q

\* config?.enabled of this.config?.display?.nightShift
NightEnabled(c) ==
    /\ ~IsNull(c)
    /\ "display" \in DOMAIN c
    /\ "display.nightShift" \in DOMAIN c
    /\ "display.nightShift.enabled" \in DOMAIN c
    /\ c["display.nightShift.enabled"] = TRUE

\* isActive of checkNightShift, for an enabled night shift
IsActiveSameDay(c, now) ==
    LET startTime == TimeToMinutes(c["display.nightShift.startTime"])
        endTime == TimeToMinutes(c["display.nightShift.endTime"])
    IN now >= startTime /\ now < endTime

IsActive(c, now) ==
    LET startTime == TimeToMinutes(c["display.nightShift.startTime"])
        endTime == TimeToMinutes(c["display.nightShift.endTime"])
    IN IF startTime > endTime
       THEN now >= startTime \/ now < endTime
       ELSE now >= startTime /\ now < endTime

\* the overlay element before any script has touched it
OverlayUnset == [opacity |-> "", active |-> FALSE]

\* checkNightShift(): the overlay it leaves, from overlay o, at minute now
OverlayAfterCheckFlip(b, c, now, o) ==
    [o EXCEPT !.opacity = IF o.opacity = "0" THEN "0.5" ELSE "0"]

OverlayAfterCheck(b, c, now, o) ==
    IF ~NightEnabled(c)
    THEN IF b = "v141" THEN [o EXCEPT !.opacity = "0"]
         ELSE [o EXCEPT !.active = FALSE]
    ELSE IF IsActive(c, now)
    THEN IF b = "v141"
         THEN [o EXCEPT !.opacity = c["display.nightShift.warmth"]]
         ELSE [opacity |-> c["display.nightShift.warmth"], active |-> TRUE]
    ELSE IF b = "v141" THEN [o EXCEPT !.opacity = "0"]
         ELSE [o EXCEPT !.active = FALSE]

\* what checkNightShift reads of configuration c: the night-shift fields
NightFields == Under("display.nightShift")

NightPart(c) == [k \in DOMAIN c \cap NightFields |-> c[k]]

\* the steps that run checkNightShift()
EvalOps == {"startup", "interval", "setting", "toggle", "check"}

\* what one run of checkNightShift() computed, whether it ran against the
\* clock and configuration of a run just before it, and the overlay it found
NightStep(name, c, now) ==
    [op |-> name, enabled |-> NightEnabled(c),
     active |-> NightEnabled(c) /\ IsActive(c, now),
     warmth |-> IF NightEnabled(c) THEN c["display.nightShift.warmth"] ELSE "",
     ran |-> NightPart(c),
     again |-> lastNight.op \in EvalOps /\ NightPart(c) = lastNight.ran,
     before |-> overlay]

\* the overlay shows nothing: opacity 0, or never styled and not 'active'
Transparent(o) == o.opacity = "0" \/ (o.opacity = "" /\ ~o.active)

\* the default document with the night-shift fields as given
NightDoc(b, enabled, start, end) ==
    With(With(With(DefaultConfig(b),
        "display.nightShift.enabled", enabled),
        "display.nightShift.startTime", TimeString(start)),
        "display.nightShift.endTime", TimeString(end))

Dimmed == bodyOpacity = DimOpacity(build)

Active == bodyOpacity = "1"

\* the idle tracker at rest, as the specifications of other parts hold it
IdleStill ==
    /\ idleTimer = "null"
    /\ idleTimeouts = <<>>
    /\ bodyOpacity = "1"
    /\ tickerShown = FALSE
    /\ lastIdle = [op |-> "init", ev |-> "", ready |-> FALSE, reset |-> FALSE]
    /\ sinceReset = 0
    /\ resetRead = 0
    /\ lastSet = 0

NoNight ==
    [op |-> "init", enabled |-> FALSE, active |-> FALSE, warmth |-> "",
     ran |-> <<>>, again |-> FALSE, before |-> OverlayUnset]

NoStore ==
    [op |-> "init", failed |-> FALSE, saved |-> FALSE, prev |-> DOMAIN Null]

\* no updateSetting call yet
NoUpdate ==
    [path |-> "", value |-> "", seq |-> 0, exact |-> TRUE, written |-> FALSE]

\* the names of the files the model drops into system/flash, as the
\* characters endsWith and path.extname look at
Update1Js == <<"u", "p", "d", "a", "t", "e", "1", ".", "j", "s">>

Update2Js == <<"u", "p", "d", "a", "t", "e", "2", ".", "j", "s">>

NotesTxt == <<"n", "o", "t", "e", "s", ".", "t", "x", "t">>

HiddenJs == <<".", "h", "i", "d", "d", "e", "n", ".", "j", "s">>

FlashNames == {Update1Js, Update2Js, NotesTxt, HiddenJs}

\* no watcher step yet
NoFlash ==
    [op |-> "init", err |-> FALSE, files |-> {}, told |-> {}, moved |-> {},
     runs |-> 0]

\* the period of the polling interval and the threshold of its lastCheck
\* guard, in ms
PollPeriod == 2000

\* what onFlashUpdate(callback) returns: part_003's cleanup function, or
\* with preload.js the result of ipcRenderer.on(...), the emitter
OnFlashUpdateReturns(b) == IF b = "v141" THEN "function" ELSE "emitter"

\* the directories ensureSystemDirectories looks for, relative to userData
SystemDirs == {"system", "system/modules", "system/flash", "system/config"}

\* no save-config call made yet, the directories as the start of the main
\* process left them
SaveQuiet ==
    /\ writes = <<>>
    /\ dirs = SystemDirs
    /\ saveSeen = {}
    /\ updates = 0
    /\ lastUpd = NoUpdate
    /\ readOverlap = FALSE

\* createWindow has just run: an empty flash directory, the watcher or
\* the polling interval installed, lastCheck = 0
WatcherQuiet ==
    /\ flashDir = {}
    /\ processedDir = {}
    /\ everDropped = {}
    /\ listings = <<>>
    /\ events = <<>>
    /\ channel = <<>>
    /\ sent = [n \in FlashNames |-> 0]
    /\ uncaught = FALSE
    /\ flashLogs = {}
    /\ lastFlash = NoFlash
    /\ sinceLastCheck = PollPeriod + 1
    /\ polls = 0
    /\ pollers = 1
    /\ windowOpen = TRUE
    /\ sentClosed = FALSE

\* the renderer's side of the flash channel: the listener of
\* setupEventListeners once init has run
SubQuiet ==
    /\ listeners = IF phase = "ready" /\ build # "renderer" THEN 1 ELSE 0
    /\ cleanup = IF phase = "ready" /\ build # "renderer"
                 THEN OnFlashUpdateReturns(build) ELSE "none"
    /\ delivered = [n \in FlashNames |-> 0]
    /\ modal = "none"
    /\ tickerHides = 0
    /\ perfLoops = 0

\* no save-config call in flight, a writable disk, a readable flash
\* directory
IoQuiet ==
    /\ SaveQuiet
    /\ diskOk = TRUE
    /\ fsFault = "none"
    /\ WatcherQuiet

\* nothing logged, loaded or saved yet
StoreQuiet ==
    /\ IoQuiet
    /\ logs = {}
    /\ lastStore = NoStore
    /\ origFile = Null
    /\ roundTrip = "none"
    /\ restarts = 0

\* the night-shift side and the main process as the timer and idle
\* specifications hold them: noon, overlay untouched
ShellQuiet ==
    /\ clock = 12 * 60
    /\ overlay = OverlayUnset
    /\ nsInterval = FALSE
    /\ rolled = 0
    /\ lastNight = NoNight
    /\ win = [start |-> 22 * 60, end |-> 7 * 60]
    /\ elapsed = 0
    /\ nsStartup = "none"
    /\ host = HostOf(build)
    /\ StoreQuiet

\* the idle side as the timer specification holds it: booted, defaults loaded
IdleQuiet ==
    /\ phase = "ready"
    /\ persisted = DefaultConfig(build)
    /\ config = DefaultConfig(build)
    /\ idleTimer = "null"
    /\ idleTimeouts = <<>>
    /\ bodyOpacity = "1"
    /\ tickerShown = FALSE
    /\ lastIdle = [op |-> "init", ev |-> "", ready |-> FALSE, reset |-> FALSE]
    /\ sinceReset = 0
    /\ resetRead = 0
    /\ lastSet = 0

----------------------------------------------------------------------------
(* Initial state: the shell after initTimer has bound the buttons *)

\* the timer as constructed: zero, not running, nothing scheduled
TimerQuiet ==
    /\ timerSeconds = 0
    /\ isTimerRunning = FALSE
    /\ timerInterval = FALSE
    /\ liveIntervals = 0
    /\ timerColor = (IF build = "renderer" THEN Grey ELSE "")
    /\ timerAnimation = ""
    /\ startBtn = "Start"
    /\ rafPending = (build = "v140")
    /\ fadePending = FALSE
    /\ last = [op |-> "init", arg |-> 0, preSeconds |-> 0, preRunning |-> FALSE]
    /\ runCompletions = 0
    /\ reachedZero = FALSE
    /\ scenario = NoScenario

InitTimer ==
    /\ build \in Builds
    /\ TimerQuiet
    /\ IdleQuiet
    /\ ShellQuiet
    /\ SubQuiet

----------------------------------------------------------------------------
(* Timer operations *)

\* addTime(seconds) / addTimerTime(seconds)
AddTime(s) ==
    /\ UNCHANGED <<idleVars, idleHist, shellVars>>
    /\ s \in AddAmounts(build)
    /\ AddedSeconds(isTimerRunning, timerSeconds, s) <= MaxTimerSeconds
    /\ timerSeconds' = AddedSeconds(isTimerRunning, timerSeconds, s)
    /\ timerColor' = IF isTimerRunning THEN timerColor
                     ELSE Refreshed(build, timerSeconds', isTimerRunning, timerColor)
    /\ rafPending' = IF isTimerRunning THEN rafPending
                     ELSE RafAfterRefresh(build, rafPending)
    /\ last' = Op("addTime", s)
    /\ scenario' = IF timerSeconds = 0 /\ ~isTimerRunning /\ s = OneMinute
                   THEN [stage |-> "added", ticks |-> 0] ELSE NoScenario
    /\ UNCHANGED <<build, isTimerRunning, timerInterval, liveIntervals,
                   timerAnimation, startBtn, fadePending, runCompletions,
                   reachedZero>>

\* toggleTimer(): early return at zero, else startTimer() or pauseTimer()
ToggleTimer ==
    /\ UNCHANGED <<idleVars, idleHist, shellVars>>
    /\ last' = Op("toggle", 0)
    /\ UNCHANGED <<build, timerSeconds, rafPending, fadePending>>
    /\ IF ToggleIgnored(timerSeconds)
       THEN /\ UNCHANGED <<isTimerRunning, timerInterval, liveIntervals,
                           timerColor, timerAnimation, startBtn,
                           runCompletions, reachedZero>>
            /\ scenario' = NoScenario
       ELSE IF ~isTimerRunning
       THEN \* startTimer()
            /\ isTimerRunning' = TRUE
            /\ timerInterval' = TRUE
            /\ liveIntervals' = liveIntervals + 1
            /\ startBtn' = IF build = "renderer" THEN "Pause" ELSE "Stop"
            /\ runCompletions' = 0
            /\ reachedZero' = FALSE
            /\ scenario' = IF scenario.stage = "added"
                           THEN [stage |-> "started", ticks |-> 0]
                           ELSE NoScenario
            /\ UNCHANGED <<timerColor, timerAnimation>>
       ELSE \* pauseTimer()
            /\ isTimerRunning' = FALSE
            /\ liveIntervals' = IntervalsAfterPause(timerInterval, liveIntervals)
            /\ timerInterval' = HandleAfterPause(timerInterval)
            /\ timerAnimation' = ""
            /\ timerColor' = PausedColor(build, timerColor)
            /\ startBtn' = "Start"
            /\ scenario' = NoScenario
            /\ UNCHANGED <<runCompletions, reachedZero>>

\* the pause button of v1.4.0 / v1.4.1: pauseTimer()
PauseButton ==
    /\ UNCHANGED <<idleVars, idleHist, shellVars>>
    /\ HasPauseButton(build)
    /\ isTimerRunning' = FALSE
    /\ liveIntervals' = IntervalsAfterPause(timerInterval, liveIntervals)
    /\ timerInterval' = HandleAfterPause(timerInterval)
    /\ timerAnimation' = ""
    /\ timerColor' = PausedColor(build, timerColor)
    /\ last' = Op("pause", 0)
    /\ scenario' = NoScenario
    /\ UNCHANGED <<build, timerSeconds, startBtn, rafPending, fadePending,
                   runCompletions, reachedZero>>

\* the state clearTimer() leaves: pauseTimer(), zero, caption, refresh
ClearEffect ==
    /\ isTimerRunning' = FALSE
    /\ liveIntervals' = IntervalsAfterPause(timerInterval, liveIntervals)
    /\ timerInterval' = HandleAfterPause(timerInterval)
    /\ timerAnimation' = ""
    /\ timerSeconds' = 0
    /\ startBtn' = "Start"
    /\ rafPending' = RafAfterRefresh(build, rafPending)

\* the clear button: clearTimer()
ClearButton ==
    /\ UNCHANGED <<idleVars, idleHist, shellVars>>
    /\ ClearEffect
    /\ timerColor' = Refreshed(build, 0, FALSE, PausedColor(build, timerColor))
    /\ last' = Op("clear", 0)
    /\ scenario' = NoScenario
    /\ UNCHANGED <<build, fadePending, runCompletions, reachedZero>>

\* one firing of a scheduled setInterval callback of startTimer(); the 1 s
\* fade of an earlier completion ran before the first tick of a later run
Tick ==
    /\ UNCHANGED <<idleVars, idleHist, shellVars>>
    /\ liveIntervals > 0
    /\ ~fadePending
    /\ last' = Op("tick", 0)
    /\ scenario' = IF scenario.stage = "started" /\ scenario.ticks < OneMinute
                   THEN [scenario EXCEPT !.ticks = @ + 1] ELSE NoScenario
    /\ UNCHANGED build
    /\ IF TickDecrements(timerSeconds)
       THEN /\ timerSeconds' = timerSeconds - 1
            /\ rafPending' = RafAfterRefresh(build, rafPending)
            /\ timerColor' =
                 IF timerSeconds' <= UrgentThreshold THEN Red
                 ELSE Refreshed(build, timerSeconds', isTimerRunning, timerColor)
            /\ timerAnimation' =
                 IF timerSeconds' <= PulseThreshold(build) THEN "pulse"
                 ELSE timerAnimation
            /\ reachedZero' = (reachedZero \/ timerSeconds' = 0)
            /\ UNCHANGED <<isTimerRunning, timerInterval, liveIntervals,
                           startBtn, fadePending, runCompletions>>
       ELSE \* clearTimer(); then the completion signal
            /\ ClearEffect
            /\ runCompletions' = runCompletions + 1
            /\ UNCHANGED reachedZero
            /\ \E audioOk \in BOOLEAN :
                 IF build = "renderer" /\ audioOk
                 THEN timerColor' = Green /\ fadePending' = TRUE
                 ELSE /\ timerColor' = Refreshed(build, 0, FALSE,
                                                 PausedColor(build, timerColor))
                      /\ UNCHANGED fadePending

\* v1.4.0: the queued requestAnimationFrame callback of updateDisplay runs
RafFire ==
    /\ UNCHANGED <<idleVars, idleHist, shellVars>>
    /\ rafPending
    /\ rafPending' = FALSE
    /\ timerColor' = DisplayColor(timerSeconds, isTimerRunning)
    /\ UNCHANGED <<build, timerSeconds, isTimerRunning, timerInterval,
                   liveIntervals, timerAnimation, startBtn, fadePending,
                   histVars>>

\* renderer.js: the 1 s timeout of playCompletionSound runs
FadeFire ==
    /\ UNCHANGED <<idleVars, idleHist, shellVars>>
    /\ fadePending
    /\ fadePending' = FALSE
    /\ timerColor' = IF timerSeconds = 0 THEN Grey ELSE timerColor
    /\ UNCHANGED <<build, timerSeconds, isTimerRunning, timerInterval,
                   liveIntervals, timerAnimation, startBtn, rafPending,
                   histVars>>

NextTimer ==
    \/ \E s \in {OneMinute, FiveMinutes, TenMinutes} : AddTime(s)
    \/ ToggleTimer
    \/ PauseButton
    \/ ClearButton
    \/ Tick
    \/ RafFire
    \/ FadeFire

SpecTimer == InitTimer /\ [][NextTimer]_vars

----------------------------------------------------------------------------
(* Properties of the countdown timer, checked under SpecTimer *)

\* C1: from remaining = 0 and not running, addTime(60), start and exactly 60
\* ticks with no other operation leave the timer at remaining = 0, not
\* running, with exactly one completion signal emitted.
C1_SixtyTicksComplete ==
    (scenario.stage = "started" /\ scenario.ticks = OneMinute) =>
        (timerSeconds = 0 /\ ~isTimerRunning /\ runCompletions = 1)

\* C2: once a tick has brought a running timer to zero, the run ends not
\* running at remaining 0 with exactly one completion signal, whatever the
\* user requests after zero was reached.
C2_ZeroRunCompletesOnce ==
    (reachedZero /\ ~isTimerRunning) =>
        (timerSeconds = 0 /\ runCompletions = 1)

\* C3: the timer is always IDLE (0, not running), LOADED (> 0, not running)
\* or RUNNING (> 0, running): remaining is never negative and the timer is
\* never running with remaining = 0.
C3_TimerStateMachine ==
    /\ timerSeconds >= 0
    /\ ~(isTimerRunning /\ timerSeconds = 0)

\* C4: addTime(s) while running leaves remaining and running unchanged;
\* while not running it increases remaining by exactly s.
C4_AddTimeEffect ==
    last.op = "addTime" =>
        IF last.preRunning
        THEN timerSeconds = last.preSeconds /\ isTimerRunning
        ELSE timerSeconds = last.preSeconds + last.arg /\ ~isTimerRunning

C4_Witness ==
    /\ last.op = "addTime"
    /\ last.preRunning
    /\ last.preSeconds > 0
    /\ timerSeconds = last.preSeconds

\* C5: start at remaining 0 changes nothing (no interval, still not
\* running); start at remaining > 0 sets running with one tick interval, and
\* every tick that finds remaining > 0 decreases it by exactly one.
C5_StartEffect ==
    /\ (last.op = "toggle" /\ ~last.preRunning /\ last.preSeconds = 0) =>
           (timerSeconds = 0 /\ ~isTimerRunning /\ ~timerInterval
            /\ liveIntervals = 0)
    /\ (last.op = "toggle" /\ ~last.preRunning /\ last.preSeconds > 0) =>
           (isTimerRunning /\ timerInterval /\ liveIntervals = 1
            /\ timerSeconds = last.preSeconds)
    /\ (last.op = "tick" /\ last.preSeconds > 0) =>
           timerSeconds = last.preSeconds - 1

C5_Witness ==
    /\ last.op = "toggle"
    /\ ~last.preRunning
    /\ last.preSeconds > 0
    /\ isTimerRunning
    /\ liveIntervals = 1

\* C6: a pause request in any running state (pause button, or toggleTimer
\* while running) leaves remaining unchanged, sets running to false and
\* leaves no tick scheduled.
C6_PauseEffect ==
    (last.op = "pause" \/ (last.op = "toggle" /\ last.preRunning)) =>
        (timerSeconds = last.preSeconds /\ ~isTimerRunning
         /\ liveIntervals = 0)

\* C7: clear in any timer state leaves remaining = 0, not running and no
\* tick scheduled, and no tick is scheduled in any not-running state, so
\* nothing decrements the timer until the next start.
C7_ClearEffect ==
    /\ last.op = "clear" =>
           (timerSeconds = 0 /\ ~isTimerRunning /\ ~timerInterval
            /\ liveIntervals = 0)
    /\ ~isTimerRunning => liveIntervals = 0

C7_Witness ==
    /\ last.op = "clear"
    /\ last.preRunning
    /\ last.preSeconds > 0
    /\ timerSeconds = 0

----------------------------------------------------------------------------
(* Idle tracker of CanvasSystem (v1.4.0 and v1.4.1) *)

\* the shell as constructed: bootSequence running, config not loaded, the
\* settings file as ensureSystemDirectories left or found it
InitIdle ==
    /\ build \in {"v140", "v141"}
    /\ TimerQuiet
    /\ ShellQuiet
    /\ phase = "boot"
    /\ \E d \in PersistedDimChoices, dropped \in BOOLEAN :
         persisted = IF dropped
                     THEN Without(DefaultConfig(build), "display.dimAfter")
                     ELSE With(DefaultConfig(build), "display.dimAfter", d)
    /\ config = Null
    /\ idleTimer = "null"
    /\ idleTimeouts = <<>>
    /\ bodyOpacity = ""
    /\ tickerShown = FALSE
    /\ lastIdle = [op |-> "init", ev |-> "", ready |-> FALSE, reset |-> FALSE]
    /\ sinceReset = 0
    /\ resetRead = 0
    /\ lastSet = 0
    /\ SubQuiet

\* what the configuration read of loadConfig gets logged: console.error in
\* main.js's get-config when the file cannot be read or parsed, and the
\* warning of loadConfig's catch branch
LoadLogs(h, f, threw) ==
    (IF h = "main.js" /\ IsCorrupt(f) THEN {"get-config"} ELSE {})
    \cup (IF threw THEN {"loadConfig"} ELSE {})

\* what checkSystemHealth of v1.4.0's bootSequence gets logged: its own
\* get-config call, then a note on null or a warning on rejection
HealthLogs(b, h, f) ==
    IF b # "v140" THEN {}
    ELSE (IF h = "main.js" /\ IsCorrupt(f) THEN {"get-config"} ELSE {})
         \cup (IF IsNull(GetConfig(h, f)) \/ IsRejected(GetConfig(h, f))
               THEN {"checkSystemHealth"} ELSE {})

\* resetIdleTimer() run against configuration c
ResetIdleTimer(c) ==
    /\ bodyOpacity' = "1"
    /\ tickerShown' = TickerAfterReset(build, tickerShown)
    /\ idleTimeouts' = Append(CancelIdle(idleTimer, idleTimeouts), IdleDelay(c))
    /\ idleTimer' = "pending"
    /\ sinceReset' = 0
    /\ resetRead' = DimAfterRead(c)

\* the end of bootSequence(): the interface is shown, resetIdleTimer()
BootEnd ==
    /\ logs' = logs \cup HealthLogs(build, host, persisted)
    /\ UNCHANGED <<nightVars, nightHist, host, lastStore, origFile, roundTrip,
                   restarts, ioVars>>
    /\ phase = "boot"
    /\ phase' = "loading"
    /\ ResetIdleTimer(config)
    /\ lastIdle' = [op |-> "boot", ev |-> "", ready |-> FALSE, reset |-> TRUE]
    /\ UNCHANGED <<build, timerVars, histVars, persisted, config, lastSet>>

\* loadConfig() and the synchronous rest of init(): get-config, defaults
\* (saved) on null, defaults (not saved) when get-config rejects or an apply
\* step throws, checkNightShift from the apply step, then the listeners
\* (v1.4.0: detectTimezone stores the host timezone and saves) and the clock
\* with its 60 s night-shift interval
LoadConfig ==
    /\ phase = "loading"
    /\ phase' = "ready"
    /\ LET got == GetConfig(host, persisted)
           first == IF IsNull(got) THEN DefaultConfig(build) ELSE got
           threw == IsRejected(got) \/ ApplyThrows(build, first)
           loaded == IF threw THEN DefaultConfig(build) ELSE first
           checked == /\ ~IsRejected(got)
                      /\ IF build = "v141" THEN ~ApplyThrows(build, first)
                         ELSE "display" \in DOMAIN first
           zoned == IF build = "v140" /\ "time" \in DOMAIN loaded
                    THEN With(loaded, "time.timezone", HostTimezone)
                    ELSE loaded
       IN /\ config' = zoned
          /\ persisted' = IF build = "v140" /\ "time" \in DOMAIN loaded
                          THEN FileAfterSave(persisted, zoned)
                          ELSE IF IsNull(got)
                          THEN FileAfterSave(persisted, DefaultConfig(build))
                          ELSE persisted
          /\ logs' = logs \cup LoadLogs(host, persisted, threw)
          /\ lastStore' =
               [op |-> "load", failed |-> IsNull(got) \/ IsRejected(got),
                saved |-> \/ build = "v140" /\ "time" \in DOMAIN loaded
                          \/ IsNull(got),
                prev |-> DOMAIN persisted]
          /\ overlay' = IF checked
                        THEN OverlayAfterCheck(build, first, clock, overlay)
                        ELSE overlay
          /\ lastNight' = IF checked THEN NightStep("startup", first, clock)
                          ELSE [NoNight EXCEPT !.op = "skipped"]
          /\ nsStartup' = IF checked THEN "evaluated" ELSE "skipped"
          /\ perfLoops' = IF build = "v141"
                          THEN IF threw THEN perfLoops
                               ELSE LoopsAfterApply(build, first, perfLoops)
                          ELSE StartPerformanceMonitor(build, zoned, perfLoops)
    /\ nsInterval' = TRUE
    /\ rolled' = 0
    /\ roundTrip' = IF roundTrip = "none" THEN "loaded"
                    ELSE IF roundTrip = "restarted" THEN "reloaded"
                    ELSE "off"
    /\ lastIdle' = [op |-> "load", ev |-> "", ready |-> FALSE, reset |-> FALSE]
    /\ UNCHANGED <<build, timerVars, histVars, idleTimer, idleTimeouts,
                   bodyOpacity, tickerShown, sinceReset, resetRead, lastSet,
                   clock, win, elapsed, host, origFile, restarts>>
    /\ readOverlap' = (\E i \in 1..Len(writes) : writes[i].stage = "open")
    /\ listeners' = listeners + 1
    /\ cleanup' = OnFlashUpdateReturns(build)
    /\ UNCHANGED <<saveVars, flashVars, delivered, modal, tickerHides>>

\* a DOM event reaches the document; the capture listeners installed by
\* setupEventListeners call resetIdleTimer for the events they name
DomEvent(e) ==
    /\ UNCHANGED shellVars
    /\ phase # "boot"
    /\ IF phase = "ready" /\ e \in IdleEvents(build)
       THEN ResetIdleTimer(config)
       ELSE UNCHANGED <<idleTimer, idleTimeouts, bodyOpacity, tickerShown,
                        sinceReset, resetRead>>
    /\ lastIdle' = [op |-> "event", ev |-> e, ready |-> phase = "ready",
                    reset |-> phase = "ready" /\ e \in IdleEvents(build)]
    /\ UNCHANGED <<build, timerVars, histVars, phase, persisted, config,
                   lastSet>>

\* the settings layer changes display.dimAfter: updateSetting, save-config,
\* then applyConfig / applyDisplaySettings, which runs checkNightShift
UpdateSetting(v) ==
    /\ phase = "ready"
    /\ v \in DimChoices(build)
    /\ build = "v141" => "display" \in DOMAIN config
    /\ config' = With(With(config, "display", "{}"), "display.dimAfter", v)
    /\ persisted' = FileAfterSave(persisted, config')
    /\ lastStore' = [op |-> "save", failed |-> FALSE, saved |-> TRUE,
                     prev |-> DOMAIN persisted]
    /\ roundTrip' = "off"
    /\ IF build = "v141"
       THEN ResetIdleTimer(config')
       ELSE UNCHANGED <<idleTimer, idleTimeouts, bodyOpacity, tickerShown,
                        sinceReset, resetRead>>
    /\ lastIdle' = [op |-> "setting", ev |-> "", ready |-> TRUE,
                    reset |-> build = "v141"]
    /\ lastSet' = v
    /\ overlay' = OverlayAfterCheck(build, config', clock, overlay)
    /\ lastNight' = NightStep("setting", config', clock)
    /\ perfLoops' = LoopsAfterApply(build, config', perfLoops)
    /\ UNCHANGED <<clock, nsInterval, rolled, win, elapsed, nsStartup,
                   host, logs, origFile, restarts, saveVars, readOverlap,
                   flashVars, listeners, cleanup, delivered, modal,
                   tickerHides>>
    /\ UNCHANGED <<build, timerVars, histVars, phase>>

\* one second passes; a timeout that is due fires before more time passes
Second ==
    /\ UNCHANGED shellVars
    /\ idleTimeouts # <<>>
    /\ \A i \in 1..Len(idleTimeouts) : idleTimeouts[i] > 0
    /\ idleTimeouts' = [i \in 1..Len(idleTimeouts) |-> idleTimeouts[i] - 1]
    /\ sinceReset' = sinceReset + 1
    /\ lastIdle' = [op |-> "second", ev |-> "", ready |-> phase = "ready",
                    reset |-> FALSE]
    /\ UNCHANGED <<build, timerVars, histVars, phase, persisted, config,
                   idleTimer, bodyOpacity, tickerShown, resetRead, lastSet>>

\* a due idle timeout runs goInactive()
GoInactive ==
    /\ UNCHANGED shellVars
    /\ \E i \in 1..Len(idleTimeouts) :
         /\ idleTimeouts[i] = 0
         /\ idleTimeouts' = SubSeq(idleTimeouts, 1, i - 1)
                            \o SubSeq(idleTimeouts, i + 1, Len(idleTimeouts))
         /\ idleTimer' = IF i = Len(idleTimeouts) /\ idleTimer = "pending"
                         THEN "fired" ELSE idleTimer
    /\ bodyOpacity' = DimOpacity(build)
    /\ tickerShown' = TRUE
    /\ lastIdle' = [op |-> "goInactive", ev |-> "", ready |-> phase = "ready",
                    reset |-> FALSE]
    /\ UNCHANGED <<build, timerVars, histVars, phase, persisted, config,
                   sinceReset, resetRead, lastSet>>

NextIdle ==
    \/ BootEnd
    \/ LoadConfig
    \/ \E e \in DomEvents : DomEvent(e)
    \/ \E v \in DimChoices("v140") \cup DimChoices("v141") : UpdateSetting(v)
    \/ Second
    \/ GoInactive

SpecIdle == InitIdle /\ [][NextIdle]_vars

----------------------------------------------------------------------------
(* Properties of the idle tracker, checked under SpecIdle *)

C9_EventsForceActive ==
    /\ (lastIdle.op = "event" /\ lastIdle.ready
        /\ lastIdle.ev \in {"mousedown", "mousemove", "keydown", "wheel",
                            "touchstart"}) =>
           (Active /\ sinceReset = 0 /\ idleTimeouts = <<IdleDelay(config)>>)
    /\ Len(idleTimeouts) <= 1

\* C10: every resetIdleTimer leaves the opacity full and the ticker hidden,
\* and every goInactive leaves the opacity lowered and the ticker shown, in
\* v1.4.0 and in v1.4.1.
C10_TransitionsSetPresentation ==
    /\ lastIdle.reset => (bodyOpacity = "1" /\ ~tickerShown)
    /\ lastIdle.op = "goInactive" =>
           (bodyOpacity \in {"0.2", "0.3"} /\ tickerShown)

\* C11: after updateSetting has set display.dimAfter to d, the configuration
\* holds d, every later resetIdleTimer arms a countdown of exactly d seconds,
\* and every pending countdown, one armed before the change included, still
\* expires exactly when the delay its own reset read has passed.
C11_NextResetReadsNewDimAfter ==
    lastSet > 0 =>
        /\ DimAfterRead(config) = lastSet
        /\ lastIdle.reset => (resetRead = lastSet /\ idleTimeouts = <<lastSet>>)
        /\ idleTimer = "pending" =>
               idleTimeouts[Len(idleTimeouts)]
                   = (IF resetRead = 0 THEN DefaultDimAfter ELSE resetRead)
                     - sinceReset
        /\ (Dimmed /\ resetRead > 0) => sinceReset = resetRead

C11_Witness ==
    /\ build = "v140"
    /\ lastSet = 30
    /\ resetRead = 30
    /\ DimAfterRead(persisted) = 30
    /\ lastIdle.op = "goInactive"
    /\ sinceReset = 30

----------------------------------------------------------------------------
(* Night shift: checkNightShift as a function of clock and configuration *)

\* window bounds, in minutes of the day, the settings file may name
WindowMinutes == {0, 7 * 60, 9 * 60, 17 * 60, 22 * 60, 24 * 60 - 1}

\* a loaded shell at any minute of the day, any window, enabled or not
InitWindow ==
    /\ build \in {"v140", "v141"}
    /\ TimerQuiet
    /\ IdleStill
    /\ phase = "ready"
    /\ \E start \in WindowMinutes, end \in WindowMinutes, on \in BOOLEAN :
         /\ config = NightDoc(build, on, start, end)
         /\ win = [start |-> start, end |-> end]
    /\ persisted = config
    /\ clock \in MinutesOfDay
    /\ overlay = OverlayUnset
    /\ nsInterval = FALSE
    /\ rolled = 0
    /\ lastNight = NoNight
    /\ elapsed = 0
    /\ nsStartup = "none"
    /\ host = HostOf(build)
    /\ StoreQuiet
    /\ SubQuiet

\* checkNightShift()
CheckNightShift ==
    /\ phase = "ready"
    /\ overlay' = OverlayAfterCheck(build, config, clock, overlay)
    /\ lastNight' = NightStep("check", config, clock)
    /\ UNCHANGED <<build, timerVars, histVars, idleVars, idleHist, clock,
                   nsInterval, rolled, win, elapsed, nsStartup, storeVars, ioVars>>

NextWindow == CheckNightShift

SpecWindow == InitWindow /\ [][NextWindow]_vars

----------------------------------------------------------------------------
(* Night shift over time: startup, the 60 s interval, the settings toggle *)

\* the windows of the settings files the night-shift runs start from
NightWindows == {<<22 * 60, 7 * 60>>, <<9 * 60, 17 * 60>>}

\* the minutes at which those runs start: just before a bound, and inside
NightClocks ==
    {6 * 60 + 59, 8 * 60 + 59, 12 * 60, 16 * 60 + 59, 21 * 60 + 59,
     24 * 60 - 1}

\* the shapes of settings file the shell may find
FileKinds == {"full", "no features", "no display", "absent", "corrupt"}

\* minutes a night-shift run lasts
MaxElapsedMinutes == 3

\* the settings file of kind kd for the given night-shift fields
NightFile(b, kd, on, start, end) ==
    IF kd = "full" THEN NightDoc(b, on, start, end)
    ELSE IF kd = "no features" THEN Drop(NightDoc(b, on, start, end), "features")
    ELSE IF kd = "no display" THEN Drop(NightDoc(b, on, start, end), "display")
    ELSE IF kd = "absent" THEN Null
    ELSE Corrupt

\* bootSequence is over; loadConfig is about to ask for the settings file
InitNight ==
    /\ build \in {"v140", "v141"}
    /\ host \in Hosts
    /\ StoreQuiet
    /\ TimerQuiet
    /\ IdleStill
    /\ phase = "loading"
    /\ config = Null
    /\ \E w \in NightWindows, on \in BOOLEAN, kd \in FileKinds :
         /\ persisted = NightFile(build, kd, on, w[1], w[2])
         /\ win = [start |-> w[1], end |-> w[2]]
    /\ clock \in NightClocks
    /\ overlay = OverlayUnset
    /\ nsInterval = FALSE
    /\ rolled = 0
    /\ lastNight = NoNight
    /\ elapsed = 0
    /\ nsStartup = "none"
    /\ SubQuiet

\* the wall clock passes a minute boundary; the 60 s interval fires once
\* between any two boundaries
MinuteRolls ==
    /\ phase = "ready"
    /\ elapsed < MaxElapsedMinutes
    /\ nsInterval => rolled = 0
    /\ clock' = (clock + 1) % (24 * 60)
    /\ rolled' = IF nsInterval THEN 1 ELSE 0
    /\ elapsed' = elapsed + 1
    /\ lastNight' = [NoNight EXCEPT !.op = "minute"]
    /\ UNCHANGED <<build, timerVars, histVars, idleVars, idleHist, overlay,
                   nsInterval, win, nsStartup, storeVars, ioVars>>

\* the 60 s interval of initClock / startTimeEngine: checkNightShift()
NightInterval ==
    /\ nsInterval
    /\ rolled = 1
    /\ rolled' = 0
    /\ overlay' = OverlayAfterCheck(build, config, clock, overlay)
    /\ lastNight' = NightStep("interval", config, clock)
    /\ UNCHANGED <<build, timerVars, histVars, idleVars, idleHist, clock,
                   nsInterval, win, elapsed, nsStartup, storeVars, ioVars>>

\* the settings layer switches night shift: updateSetting, save-config, then
\* applyConfig / applyDisplaySettings, which runs checkNightShift
ToggleNightShift(on) ==
    /\ phase = "ready"
    /\ "display.nightShift" \in DOMAIN config
    /\ config' = With(config, "display.nightShift.enabled", on)
    /\ persisted' = FileAfterSave(persisted, config')
    /\ lastStore' = [op |-> "save", failed |-> FALSE, saved |-> TRUE,
                     prev |-> DOMAIN persisted]
    /\ roundTrip' = "off"
    /\ overlay' = OverlayAfterCheck(build, config', clock, overlay)
    /\ lastNight' = NightStep("toggle", config', clock)
    /\ perfLoops' = LoopsAfterApply(build, config', perfLoops)
    /\ UNCHANGED <<build, timerVars, histVars, phase, idleTimer, idleTimeouts,
                   bodyOpacity, tickerShown, idleHist, clock, nsInterval,
                   rolled, win, elapsed, nsStartup, host, logs, origFile,
                   restarts, saveVars, readOverlap, flashVars, listeners,
                   cleanup, delivered, modal, tickerHides>>

NextNight ==
    \/ LoadConfig
    \/ MinuteRolls
    \/ NightInterval
    \/ \E on \in BOOLEAN : ToggleNightShift(on)

SpecNight == InitNight /\ [][NextNight]_vars

----------------------------------------------------------------------------
(* The settings document: get-config, save-config, loadConfig, restarts *)

\* a fully populated document with no value at its default, as version
\* shape of the shell wrote it
CustomConfig(shape) ==
    With(With(With(With(With(DefaultConfig(shape),
        "display.brightness", 80),
        "display.dimAfter", 60),
        "display.nightShift.warmth", "0.3"),
        "time.format", "24h"),
        "animations.intensity", "high")

\* the fields and sections a stored document may lack
RemovableFields ==
    {"display", "display.dimAfter", "display.nightShift", "time",
     "animations.intensity", "features"}

\* the document without the fields of set gone and what is nested in them
DropAll(c, gone) ==
    [x \in DOMAIN c \ UNION {Under(k) : k \in gone} |-> c[x]]

\* the defaults of shell b with every field of document f laid over them
Filled(b, f) ==
    [k \in DOMAIN DefaultConfig(b) \cup DOMAIN f |->
        IF k \in DOMAIN f THEN f[k] ELSE DefaultConfig(b)[k]]

\* every field of the schema is there
FullyPopulated(c) ==
    /\ ~IsNull(c)
    /\ DOMAIN DefaultConfig("v141") \subseteq DOMAIN c

\* reloads of the window the model follows
MaxRestarts == 1

\* the shell as constructed, over any settings file: absent, unparsable, or
\* a custom document of either version with any set of fields missing
InitConfig ==
    /\ build \in {"v140", "v141"}
    /\ host \in Hosts
    /\ TimerQuiet
    /\ phase = "boot"
    /\ \/ persisted \in {Null, Corrupt}
       \/ \E shape \in {"v140", "v141"}, gone \in SUBSET RemovableFields :
            persisted = DropAll(CustomConfig(shape), gone)
    /\ config = Null
    /\ idleTimer = "null"
    /\ idleTimeouts = <<>>
    /\ bodyOpacity = ""
    /\ tickerShown = FALSE
    /\ lastIdle = [op |-> "init", ev |-> "", ready |-> FALSE, reset |-> FALSE]
    /\ sinceReset = 0
    /\ resetRead = 0
    /\ lastSet = 0
    /\ clock = 12 * 60
    /\ overlay = OverlayUnset
    /\ nsInterval = FALSE
    /\ rolled = 0
    /\ lastNight = NoNight
    /\ win = [start |-> 22 * 60, end |-> 7 * 60]
    /\ elapsed = 0
    /\ nsStartup = "none"
    /\ logs = {}
    /\ lastStore = NoStore
    /\ origFile = persisted
    /\ roundTrip = "none"
    /\ restarts = 0
    /\ IoQuiet
    /\ SubQuiet

\* saveConfig(this.config): the save-config call with the loaded document
SaveCurrent ==
    /\ phase = "ready"
    /\ persisted' = FileAfterSave(persisted, config)
    /\ lastStore' = [op |-> "save", failed |-> FALSE, saved |-> TRUE,
                     prev |-> DOMAIN persisted]
    /\ roundTrip' = IF roundTrip = "loaded" THEN "saved" ELSE "off"
    /\ UNCHANGED <<build, timerVars, histVars, phase, config, idleTimer,
                   idleTimeouts, bodyOpacity, tickerShown, idleHist,
                   nightVars, nightHist, host, logs, origFile, restarts,
                   ioVars>>

\* a new CanvasSystem is constructed in a freshly loaded page and runs
\* init; settings.json and the save-config calls in flight stay
NewShell ==
    /\ restarts < MaxRestarts
    /\ restarts' = restarts + 1
    /\ phase' = "boot"
    /\ config' = Null
    /\ idleTimer' = "null"
    /\ idleTimeouts' = <<>>
    /\ bodyOpacity' = ""
    /\ tickerShown' = FALSE
    /\ lastIdle' = [op |-> "init", ev |-> "", ready |-> FALSE, reset |-> FALSE]
    /\ sinceReset' = 0
    /\ resetRead' = 0
    /\ lastSet' = 0
    /\ overlay' = OverlayUnset
    /\ nsInterval' = FALSE
    /\ rolled' = 0
    /\ lastNight' = NoNight
    /\ nsStartup' = "none"
    /\ logs' = {}
    /\ lastStore' = [NoStore EXCEPT !.op = "restart"]
    /\ roundTrip' = IF roundTrip = "saved" THEN "restarted" ELSE "off"
    /\ listeners' = 0
    /\ cleanup' = "none"
    /\ modal' = "none"
    /\ tickerHides' = 0
    /\ perfLoops' = 0
    /\ timerSeconds' = ConstructedSeconds(timerSeconds)
    /\ isTimerRunning' = FALSE
    /\ timerInterval' = FALSE
    /\ liveIntervals' = 0
    /\ timerColor' = (IF build = "renderer" THEN Grey ELSE "")
    /\ timerAnimation' = ""
    /\ startBtn' = "Start"
    /\ rafPending' = (build = "v140")
    /\ fadePending' = FALSE
    /\ last' = Op("restart", 0)
    /\ runCompletions' = 0
    /\ reachedZero' = FALSE
    /\ scenario' = NoScenario
    /\ UNCHANGED <<build, persisted, clock, win, elapsed, host, origFile,
                   saveVars, readOverlap, delivered>>

\* the window is reloaded: the main process, its window and its watcher
\* stay
Restart ==
    /\ phase = "ready"
    /\ NewShell
    /\ UNCHANGED flashVars

NextConfig ==
    \/ BootEnd
    \/ LoadConfig
    \/ \E v \in DimChoices("v141") : UpdateSetting(v)
    \/ \E on \in BOOLEAN : ToggleNightShift(on)
    \/ SaveCurrent
    \/ Restart

SpecConfig == InitConfig /\ [][NextConfig]_vars

----------------------------------------------------------------------------
(* The save-config traffic: updateSetting's un-awaited saveConfig followed
   through the main process.  The actions above fold a save into the step
   that issues it; here the call, the handler and the end of the write are
   separate steps *)

\* updateSetting calls the model follows
MaxUpdates == 2

\* the data-setting names of the settings layer: setting names for
\* v1.4.1's switch, configuration paths for v1.4.0
SettingNames(b) ==
    IF b = "v141"
    THEN {"nightShift", "hapticFeedback", "performanceMonitor", "timeFormat",
          "dimAfter"}
    ELSE {"display.nightShift.enabled", "display.dimAfter",
          "display.brightness", "time.format", "animations.intensity",
          "animations.springPhysics", "features.hapticFeedback",
          "features.performanceMonitor", "features.debugMode"}

\* every data-setting name
AllSettingNames == SettingNames("v140") \cup SettingNames("v141")

\* the field updateSetting assigns for setting s
SettingPath(b, s) ==
    IF b = "v140" THEN s
    ELSE IF s = "nightShift" THEN "display.nightShift.enabled"
    ELSE IF s = "hapticFeedback" THEN "features.hapticFeedback"
    ELSE IF s = "performanceMonitor" THEN "features.performanceMonitor"
    ELSE IF s = "timeFormat" THEN "time.format"
    ELSE "display.dimAfter"

\* the values the control of setting s can pass to updateSetting
SettingValues(b, s) ==
    LET p == SettingPath(b, s)
    IN IF FieldType(p) = "boolean" THEN BOOLEAN
       ELSE IF p = "display.dimAfter" THEN DimChoices(b)
       ELSE IF p = "display.brightness" THEN {10 * k : k \in 1..10}
       ELSE IF p = "time.format" THEN {"12h", "24h"}
       ELSE {"low", "medium", "high"}

\* the numbers and strings the model lets the controls pass
NumberChoices == {60, 80, 300}

StringChoices == {"24h", "high"}

\* v1.4.0's walk along the path: a missing section on the way is created
SetPath(c, p, v) ==
    LET up == SchemaParent(p)
        upup == SchemaParent(up)
        top == IF upup = "" \/ upup \in DOMAIN c THEN c ELSE With(c, upup, "{}")
        mid == IF up = "" \/ up \in DOMAIN top THEN top ELSE With(top, up, "{}")
    IN With(mid, p, v)

\* the configuration after updateSetting's assignment
Assigned(b, c, p, v) == IF b = "v141" THEN With(c, p, v) ELSE SetPath(c, p, v)

\* the configuration passed to saveConfig, as the message carries it
SaveMessage(before, after) == after

\* c and d agree on every field but p
SameButFor(c, d, p) ==
    /\ DOMAIN c \ {p} = DOMAIN d \ {p}
    /\ \A k \in DOMAIN c \ {p} : c[k] = d[k]

\* updateSetting(s, v): the assignment, saveConfig (not awaited: the
\* save-config message is on its way), then the apply step with
\* checkNightShift; v1.4.1 restarts the idle countdown for dimAfter
UpdateSettingQueued(s, t, v) ==
    /\ phase = "ready"
    /\ updates < MaxUpdates
    /\ s \in SettingNames(build)
    /\ FieldType(SettingPath(build, s)) = t
    /\ v \in SettingValues(build, s)
    /\ build = "v141" => SchemaParent(SettingPath(build, s)) \in DOMAIN config
    /\ LET p == SettingPath(build, s)
           next == Assigned(build, config, p, v)
       IN /\ config' = next
          /\ writes' = Append(writes, [doc |-> SaveMessage(config, next),
                                       seq |-> updates + 1,
                                       stage |-> "sent", mixed |-> FALSE])
          /\ lastUpd' = [path |-> p, value |-> v, seq |-> updates + 1,
                         exact |-> /\ p \in DOMAIN next
                                   /\ next[p] = v
                                   /\ SameButFor(config, next, p),
                         written |-> FALSE]
          /\ IF build = "v141" /\ s = "dimAfter"
             THEN ResetIdleTimer(next)
             ELSE UNCHANGED <<idleTimer, idleTimeouts, bodyOpacity,
                              tickerShown, sinceReset, resetRead>>
          /\ lastIdle' = [op |-> "setting", ev |-> "", ready |-> TRUE,
                          reset |-> build = "v141" /\ s = "dimAfter"]
          /\ lastSet' = IF p = "display.dimAfter" THEN v ELSE lastSet
          /\ overlay' = IF ApplyThrows(build, next) THEN overlay
                         ELSE OverlayAfterCheck(build, next, clock, overlay)
          /\ lastNight' = IF ApplyThrows(build, next)
                           THEN [NoNight EXCEPT !.op = "skipped"]
                           ELSE NightStep("setting", next, clock)
          /\ perfLoops' =
               LET started == IF build = "v141" /\ s = "performanceMonitor"
                                 /\ v
                              THEN StartPerformanceMonitor(build, next,
                                                           perfLoops)
                              ELSE perfLoops
               IN IF ApplyThrows(build, next) THEN started
                  ELSE LoopsAfterApply(build, next, started)
    /\ updates' = updates + 1
    /\ UNCHANGED <<build, timerVars, histVars, phase, persisted, clock,
                   nsInterval, rolled, win, elapsed, nsStartup, storeVars,
                   diskOk, dirs, saveSeen, readOverlap, flashVars, listeners,
                   cleanup, delivered, modal, tickerHides>>

\* the position in writes of the save-config message the main process
\* handles next (messages of one renderer arrive in order), 0 if none
NextSent ==
    IF \E i \in 1..Len(writes) : writes[i].stage = "sent"
    THEN CHOOSE i \in 1..Len(writes) :
            /\ writes[i].stage = "sent"
            /\ \A j \in 1..(i - 1) : writes[j].stage # "sent"
    ELSE 0

\* writes without its i-th entry
Settled(i) == [j \in 1..(Len(writes) - 1) |->
                  IF j < i THEN writes[j] ELSE writes[j + 1]]

\* what a failed write leaves the caller with: main.js catches, logs and
\* returns false; the chokidar variant's handler throws, the invoke rejects
SaveFailure(h) == IF h = "main.js" THEN "false" ELSE "rejected"

\* the save-config handler starts on a message.  chokidar variant:
\* writeFileSync, done within the handler.  main.js: await
\* fs.promises.writeFile, which opens settings.json truncating it; until
\* the write ends the file holds a prefix of the new text
SaveConfigHandler ==
    /\ NextSent # 0
    /\ LET i == NextSent
           w == writes[i]
       IN IF ~diskOk
          THEN /\ writes' = Settled(i)
               /\ saveSeen' = saveSeen \cup {SaveFailure(host)}
               /\ logs' = IF host = "main.js" THEN logs \cup {"save-config"}
                          ELSE logs
               /\ UNCHANGED <<persisted, lastUpd>>
          ELSE IF host = "chokidar"
          THEN /\ writes' = Settled(i)
               /\ persisted' = FileAfterSave(persisted, w.doc)
               /\ saveSeen' = saveSeen \cup {"true"}
               /\ lastUpd' = IF w.seq = lastUpd.seq
                             THEN [lastUpd EXCEPT !.written = TRUE]
                             ELSE lastUpd
               /\ UNCHANGED logs
          ELSE /\ writes' = [writes EXCEPT ![i].stage = "open"]
               /\ persisted' = Corrupt
               /\ UNCHANGED <<saveSeen, lastUpd, logs>>
    /\ UNCHANGED <<build, timerVars, histVars, phase, config, idleTimer,
                   idleTimeouts, bodyOpacity, tickerShown, idleHist,
                   nightVars, nightHist, host, lastStore, origFile,
                   roundTrip, restarts, diskOk, dirs, updates, readOverlap,
                   flashVars, subVars>>

\* main.js: a writeFile ends and its handler returns true.  Writes that
\* were open together have written into the same file from offset 0: the
\* file then holds this document, or its text followed by the tail of a
\* longer one written before, which does not parse
WriteFileDone(i) ==
    /\ i \in 1..Len(writes)
    /\ writes[i].stage = "open"
    /\ LET w == writes[i]
           others == \E j \in 1..Len(writes) : j # i /\ writes[j].stage = "open"
       IN /\ persisted' \in
                 IF w.mixed \/ others
                 THEN {FileAfterSave(persisted, w.doc), Corrupt}
                 ELSE {FileAfterSave(persisted, w.doc)}
          /\ writes' = [j \in 1..(Len(writes) - 1) |->
                          LET x == IF j < i THEN writes[j] ELSE writes[j + 1]
                          IN IF x.stage = "open"
                             THEN [x EXCEPT !.mixed = TRUE] ELSE x]
          /\ lastUpd' = IF w.seq = lastUpd.seq
                        THEN [lastUpd EXCEPT !.written = TRUE] ELSE lastUpd
    /\ saveSeen' = saveSeen \cup {"true"}
    /\ UNCHANGED <<build, timerVars, histVars, phase, config, idleTimer,
                   idleTimeouts, bodyOpacity, tickerShown, idleHist,
                   nightVars, nightHist, storeVars, diskOk, dirs, updates,
                   readOverlap, flashVars, subVars>>

\* in-flight writes the model follows at once
MaxInFlight == 2

\* the shell as constructed over a complete settings.json, the disk
\* writable or not
InitSave ==
    /\ build \in {"v140", "v141"}
    /\ host \in Hosts
    /\ TimerQuiet
    /\ phase = "boot"
    /\ persisted \in {DefaultConfig(build), CustomConfig(build)}
    /\ config = Null
    /\ idleTimer = "null"
    /\ idleTimeouts = <<>>
    /\ bodyOpacity = ""
    /\ tickerShown = FALSE
    /\ lastIdle = [op |-> "init", ev |-> "", ready |-> FALSE, reset |-> FALSE]
    /\ sinceReset = 0
    /\ resetRead = 0
    /\ lastSet = 0
    /\ clock = 12 * 60
    /\ overlay = OverlayUnset
    /\ nsInterval = FALSE
    /\ rolled = 0
    /\ lastNight = NoNight
    /\ win = [start |-> 22 * 60, end |-> 7 * 60]
    /\ elapsed = 0
    /\ nsStartup = "none"
    /\ logs = {}
    /\ lastStore = NoStore
    /\ origFile = persisted
    /\ roundTrip = "none"
    /\ restarts = 0
    /\ SaveQuiet
    /\ diskOk \in BOOLEAN
    /\ fsFault = "none"
    /\ WatcherQuiet
    /\ SubQuiet

NextSave ==
    \/ BootEnd
    \/ LoadConfig
    \/ \E s \in AllSettingNames, v \in BOOLEAN :
          UpdateSettingQueued(s, "boolean", v)
    \/ \E s \in AllSettingNames, v \in NumberChoices :
          UpdateSettingQueued(s, "number", v)
    \/ \E s \in AllSettingNames, v \in StringChoices :
          UpdateSettingQueued(s, "string", v)
    \/ SaveConfigHandler
    \/ \E i \in 1..MaxInFlight : WriteFileDone(i)
    \/ Restart

SpecSave == InitSave /\ [][NextSave]_vars

----------------------------------------------------------------------------
(* The flash-update pipeline: files dropped into system/flash, the polling
   interval of main.js or the chokidar watcher of the other main process,
   the 'flash-update' channel and the renderer's listener *)

\* f.endsWith('.js')
EndsWithJs(f) ==
    /\ Len(f) >= 3
    /\ SubSeq(f, Len(f) - 2, Len(f)) = <<".", "j", "s">>

\* the position of the last '.' of f, 0 if there is none
LastDot(f) ==
    IF \E i \in 1..Len(f) : f[i] = "."
    THEN CHOOSE i \in 1..Len(f) :
            f[i] = "." /\ \A j \in (i + 1)..Len(f) : f[j] # "."
    ELSE 0

\* path.extname(f): from the last '.' on, empty when there is none or
\* when it is the first character of the name
ExtName(f) == IF LastDot(f) <= 1 THEN <<>> ELSE SubSeq(f, LastDot(f), Len(f))

\* chokidar's ignored: /(^|[\/\\])\../ matches a name starting with '.'
Ignored(f) == Len(f) >= 2 /\ f[1] = "."

\* files.filter(f => f.endsWith('.js'))
JsFiles(files) == {f \in files : EndsWithJs(f)}

\* what the file system can refuse the watcher
FsFaults == {"none", "readdir", "rename"}

\* ms between two firings of the 2000 ms interval
TickGaps == {PollPeriod, PollPeriod + 1}

\* firings of the polling interval the model follows
MaxPolls == 3

\* fs.readdir calls in flight at once
MaxListings == 2

\* a file is put into system/flash; every chokidar watcher installed raises
\* one 'add' event for it unless its path is ignored
DropFile(f) ==
    /\ f \in FlashNames \ everDropped
    /\ flashDir' = flashDir \cup {f}
    /\ everDropped' = everDropped \cup {f}
    /\ events' = IF host = "chokidar" /\ ~Ignored(f)
                 THEN events \o [k \in 1..pollers |-> f] ELSE events
    /\ lastFlash' = [NoFlash EXCEPT !.op = "drop", !.files = {f}]
    /\ UNCHANGED <<processedDir, fsFault, listings, channel, sent, uncaught,
                   flashLogs, sinceLastCheck, polls, pollers, windowOpen,
                   sentClosed>>
    /\ UNCHANGED <<build, timerVars, histVars, idleVars, idleHist, nightVars,
                   nightHist, storeVars, saveVars, readOverlap, subVars>>

\* the 2000 ms interval of main.js fires d ms after its previous firing:
\* when now - lastCheck > 2000, lastCheck = now and fs.readdir is called;
\* its result is the directory as it is now, its callback runs later
PollTick(d) ==
    /\ host = "main.js"
    /\ pollers > 0
    /\ polls < MaxPolls
    /\ Len(listings) < MaxListings
    /\ polls' = polls + 1
    /\ IF sinceLastCheck + d > PollPeriod
       THEN /\ sinceLastCheck' = 0
            /\ listings' = Append(listings,
                   [err |-> fsFault = "readdir",
                    files |-> IF fsFault = "readdir" THEN {} ELSE flashDir])
            /\ lastFlash' = [NoFlash EXCEPT !.op = "tick"]
       ELSE /\ sinceLastCheck' = sinceLastCheck + d
            /\ lastFlash' = [NoFlash EXCEPT !.op = "suppressed"]
            /\ UNCHANGED listings
    /\ UNCHANGED <<flashDir, processedDir, everDropped, fsFault, events,
                   channel, sent, uncaught, flashLogs, pollers, windowOpen,
                   sentClosed>>
    /\ UNCHANGED <<build, timerVars, histVars, idleVars, idleHist, nightVars,
                   nightHist, storeVars, saveVars, readOverlap, subVars>>

\* mainWindow.webContents.send on a window that has been closed: the
\* destroyed object throws, or the message is discarded
ClosedSendOutcomes == {"throws", "discarded"}

\* renameSync (after mkdirSync of processed) of file f throws: the file
\* system refuses, or an earlier callback has moved the file already
RenameThrows(f) == fsFault = "rename" \/ f \notin flashDir

\* the files forEach has moved when it ends or throws, jsFiles[0] being
\* first: all of them, or those before the first rename that throws
MovedSets(js, first) ==
    IF \A f \in js : ~RenameThrows(f) THEN {js}
    ELSE IF RenameThrows(first) THEN {{}}
    ELSE {m \cup {first} : m \in SUBSET {f \in js \ {first} : ~RenameThrows(f)}}

\* the name sent for a scan that found the files js, first of them in
\* directory order
Announced(js, first) == {first}

\* the readdir callback: on an error nothing; otherwise the .js files are
\* filtered, jsFiles[0] is sent as 'flash-update', and every .js file is
\* renamed into processed/
ReaddirCallback ==
    /\ listings # <<>>
    /\ listings' = Tail(listings)
    /\ LET l == Head(listings)
           js == JsFiles(l.files)
       IN IF l.err \/ js = {}
          THEN /\ lastFlash' = [NoFlash EXCEPT !.op = "scan", !.err = l.err,
                                               !.files = l.files]
               /\ UNCHANGED <<flashDir, processedDir, channel, sent,
                              uncaught, sentClosed>>
          ELSE IF windowOpen
          THEN \E first \in js :
               \E moved \in MovedSets(js, first) :
                  /\ sent' = [f \in FlashNames |->
                                IF f \in Announced(js, first)
                                THEN sent[f] + 1 ELSE sent[f]]
                  /\ channel' = Append(channel, first)
                  /\ flashDir' = flashDir \ moved
                  /\ processedDir' = processedDir \cup moved
                  /\ uncaught' = (uncaught \/ \E f \in js : RenameThrows(f))
                  /\ lastFlash' = [NoFlash EXCEPT !.op = "scan",
                                      !.files = l.files,
                                      !.told = Announced(js, first),
                                      !.moved = moved]
                  /\ UNCHANGED sentClosed
          ELSE \E outcome \in ClosedSendOutcomes :
               \E first \in js :
               \E moved \in MovedSets(js, first) :
                  /\ sentClosed' = TRUE
                  /\ flashDir' = IF outcome = "throws" THEN flashDir
                                  ELSE flashDir \ moved
                  /\ processedDir' = IF outcome = "throws" THEN processedDir
                                       ELSE processedDir \cup moved
                  /\ uncaught' = (\/ uncaught
                                  \/ outcome = "throws"
                                  \/ \E f \in js : RenameThrows(f))
                  /\ lastFlash' = [NoFlash EXCEPT !.op = "scan-closed",
                                      !.files = l.files,
                                      !.moved = IF outcome = "throws" THEN {}
                                                ELSE moved]
                  /\ UNCHANGED <<channel, sent>>
    /\ UNCHANGED <<everDropped, fsFault, events, flashLogs, sinceLastCheck,
                   polls, pollers, windowOpen>>
    /\ UNCHANGED <<build, timerVars, histVars, idleVars, idleHist, nightVars,
                   nightHist, storeVars, saveVars, readOverlap, subVars>>

\* watcher.on('add'): a path with extension .js is logged and its
\* basename sent as 'flash-update'
AddEvent ==
    /\ events # <<>>
    /\ events' = Tail(events)
    /\ LET f == Head(events)
       IN IF ExtName(f) # <<".", "j", "s">>
          THEN /\ lastFlash' = [NoFlash EXCEPT !.op = "add", !.files = {f}]
               /\ UNCHANGED <<flashLogs, sent, channel, uncaught, sentClosed>>
          ELSE IF windowOpen
          THEN /\ flashLogs' = flashLogs \cup {"detected"}
               /\ sent' = [sent EXCEPT ![f] = @ + 1]
               /\ channel' = Append(channel, f)
               /\ lastFlash' = [NoFlash EXCEPT !.op = "add", !.files = {f},
                                               !.told = {f}]
               /\ UNCHANGED <<uncaught, sentClosed>>
          ELSE \E outcome \in ClosedSendOutcomes :
               /\ flashLogs' = flashLogs \cup {"detected"}
               /\ sentClosed' = TRUE
               /\ uncaught' = (uncaught \/ outcome = "throws")
               /\ lastFlash' = [NoFlash EXCEPT !.op = "add-closed",
                                               !.files = {f}]
               /\ UNCHANGED <<sent, channel>>
    /\ UNCHANGED <<flashDir, processedDir, everDropped, fsFault, listings,
                   sinceLastCheck, polls, pollers, windowOpen>>
    /\ UNCHANGED <<build, timerVars, histVars, idleVars, idleHist, nightVars,
                   nightHist, storeVars, saveVars, readOverlap, subVars>>

\* listeners on 'flash-update' after the function onFlashUpdate returned
\* has been called: removeAllListeners('flash-update')
ListenersAfterCleanup(n) == 0

\* a 'flash-update' message reaches the page: every listener calls
\* handleFlashUpdate(moduleName).  v1.4.1 shows the ticker and starts the
\* 3 s timeout hiding it; v1.4.0 shows the update modal and goes on to
\* reload the window
FlashDelivered ==
    /\ channel # <<>>
    /\ channel' = Tail(channel)
    /\ delivered' = [delivered EXCEPT ![Head(channel)] = @ + listeners]
    /\ lastFlash' = [NoFlash EXCEPT !.op = IF cleanup = "called"
                                          THEN "deliver-after-cleanup"
                                          ELSE IF cleanup = "none"
                                          THEN "deliver-unheard"
                                          ELSE "deliver",
                                    !.files = {Head(channel)},
                                    !.runs = listeners]
    /\ tickerShown' = IF listeners > 0 /\ build = "v141" THEN TRUE
                      ELSE tickerShown
    /\ tickerHides' = IF listeners > 0 /\ build = "v141"
                      THEN tickerHides + listeners ELSE tickerHides
    /\ modal' = IF listeners > 0 /\ build = "v140" THEN "installing"
                ELSE modal
    /\ UNCHANGED <<flashDir, processedDir, everDropped, fsFault, listings,
                   events, sent, uncaught, flashLogs, sinceLastCheck, polls,
                   pollers, windowOpen, sentClosed>>
    /\ UNCHANGED <<build, timerVars, histVars, phase, persisted, config,
                   idleTimer, idleTimeouts, bodyOpacity, idleHist, nightVars,
                   nightHist, storeVars, saveVars, readOverlap, listeners,
                   cleanup, perfLoops>>

\* v1.4.1: a 3 s timeout of handleFlashUpdate hides the ticker
TickerHideFires ==
    /\ tickerHides > 0
    /\ tickerHides' = tickerHides - 1
    /\ tickerShown' = FALSE
    /\ UNCHANGED <<build, timerVars, histVars, phase, persisted, config,
                   idleTimer, idleTimeouts, bodyOpacity, idleHist, nightVars,
                   nightHist, storeVars, saveVars, readOverlap, flashVars,
                   listeners, cleanup, delivered, modal, perfLoops>>

\* v1.4.1: the beforeunload listener calls the function onFlashUpdate
\* returned
BeforeUnload ==
    /\ phase = "ready"
    /\ cleanup = "function"
    /\ cleanup' = "called"
    /\ listeners' = ListenersAfterCleanup(listeners)
    /\ UNCHANGED <<build, timerVars, histVars, idleVars, idleHist, nightVars,
                   nightHist, storeVars, saveVars, readOverlap, flashVars,
                   delivered, modal, tickerHides, perfLoops>>

\* v1.4.0: handleFlashUpdate ends with window.location.reload()
FlashReload ==
    /\ modal = "installing"
    /\ Restart

\* the shell as constructed and the main process after createWindow, the
\* flash directory empty, the file system sound or refusing something
InitFlash ==
    /\ build \in {"v140", "v141"}
    /\ host \in Hosts
    /\ TimerQuiet
    /\ phase = "boot"
    /\ persisted = DefaultConfig(build)
    /\ config = Null
    /\ idleTimer = "null"
    /\ idleTimeouts = <<>>
    /\ bodyOpacity = ""
    /\ tickerShown = FALSE
    /\ lastIdle = [op |-> "init", ev |-> "", ready |-> FALSE, reset |-> FALSE]
    /\ sinceReset = 0
    /\ resetRead = 0
    /\ lastSet = 0
    /\ clock = 12 * 60
    /\ overlay = OverlayUnset
    /\ nsInterval = FALSE
    /\ rolled = 0
    /\ lastNight = NoNight
    /\ win = [start |-> 22 * 60, end |-> 7 * 60]
    /\ elapsed = 0
    /\ nsStartup = "none"
    /\ logs = {}
    /\ lastStore = NoStore
    /\ origFile = persisted
    /\ roundTrip = "none"
    /\ restarts = 0
    /\ SaveQuiet
    /\ diskOk = TRUE
    /\ fsFault \in FsFaults
    /\ WatcherQuiet
    /\ SubQuiet

NextFlash ==
    \/ BootEnd
    \/ LoadConfig
    \/ \E f \in FlashNames : DropFile(f)
    \/ \E d \in TickGaps : PollTick(d)
    \/ ReaddirCallback
    \/ AddEvent
    \/ FlashDelivered
    \/ TickerHideFires
    \/ BeforeUnload
    \/ FlashReload

SpecFlash == InitFlash /\ [][NextFlash]_vars

----------------------------------------------------------------------------
(* Properties of the night-shift window, checked under SpecWindow *)

\* C12: for every minute now and every window start, end of the day, the
\* activity checkNightShift computes is: enabled, and now >= start or
\* now < end when start > end, start <= now < end otherwise; a disabled
\* night shift is never active.
C12_WindowActivity ==
    lastNight.op = "check" =>
        lastNight.active =
            (/\ config["display.nightShift.enabled"]
             /\ IF win.start > win.end
                THEN clock >= win.start \/ clock < win.end
                ELSE win.start <= clock /\ clock < win.end)

C12_Witness ==
    /\ lastNight.op = "check"
    /\ win = [start |-> 22 * 60, end |-> 7 * 60]
    /\ clock = 3 * 60
    /\ lastNight.active
    /\ overlay.opacity = "0.5"

----------------------------------------------------------------------------
(* Properties of the night shift over time, checked under SpecNight *)

\* the overlay shows what clock and configuration call for right now
OverlayCurrent ==
    IF NightEnabled(config) /\ IsActive(config, clock)
    THEN overlay.opacity = config["display.nightShift.warmth"]
    ELSE Transparent(overlay)

\* C13: after every run of checkNightShift the overlay's opacity is the
\* configured warmth when night shift is enabled and the clock is inside
\* the window, and the overlay is fully transparent otherwise.
C13_OverlayFollowsActivity ==
    lastNight.op \in EvalOps =>
        IF lastNight.active
        THEN overlay.opacity = lastNight.warmth
        ELSE Transparent(overlay)

\* C14: on every startup path init of v1.4.1 runs checkNightShift once and
\* installs the 60 s interval, and from then on the overlay shows the
\* current activity unless a minute boundary passed since the interval last
\* fired.
C14_EvaluatedAtStartupAndEveryMinute ==
    (build = "v141" /\ phase = "ready") =>
        /\ nsStartup = "evaluated"
        /\ nsInterval
        /\ rolled = 0 => OverlayCurrent

\* C15: a run of checkNightShift against the clock and the night-shift
\* configuration of the run just before it leaves the overlay as that run left it, applying it
\* twice to any reachable overlay gives what applying it once gives, and the
\* interval's run changes nothing but the overlay: not the configuration,
\* the settings file, the timer or the idle tracker.
C15_CheckIsIdempotentAndPure ==
    /\ [](lastNight.again => overlay = lastNight.before)
    /\ [](OverlayAfterCheck(build, config, clock,
                            OverlayAfterCheck(build, config, clock, overlay))
            = OverlayAfterCheck(build, config, clock, overlay))
    /\ [][NightInterval =>
            UNCHANGED <<config, persisted, phase, timerVars, idleTimer,
                        idleTimeouts, bodyOpacity, tickerShown>>]_vars

C15_Witness ==
    /\ build = "v140"
    /\ lastNight.op = "interval"
    /\ lastNight.again
    /\ lastNight.active
    /\ overlay = [opacity |-> "0.5", active |-> TRUE]

----------------------------------------------------------------------------
(* Properties of the settings document, checked under SpecConfig *)

\* the settings file the last load found was absent or could not be parsed
LoadFoundNoDocument ==
    /\ lastStore.op = "load"
    /\ lastStore.prev \in {DOMAIN Null, DOMAIN Corrupt}

\* C16: when the settings file is absent or fails to parse, the load leaves
\* the built-in defaults in memory and has written them to the file, so
\* that the next get-config returns a document equal to the defaults.
C16_DefaultsPersistedOnBadFile ==
    LoadFoundNoDocument =>
        /\ config = DefaultConfig(build)
        /\ GetConfig(host, persisted) = DefaultConfig(build)

\* C17: when the settings file is missing or unparsable (get-config returns
\* null or rejects), loadConfig throws nothing: the failure is logged, the
\* configuration in memory is the defaults, and init has gone on to the
\* listeners, the clock with its interval, and the timer.
C17_LoadFailsSoft ==
    LoadFoundNoDocument =>
        /\ logs # {}
        /\ config = DefaultConfig(build)
        /\ phase = "ready"
        /\ nsInterval

\* C18: once loadConfig has completed, and after any updateSetting calls,
\* the configuration in memory has every field of the schema, whatever
\* fields the settings file had.
C18_AlwaysFullyPopulated ==
    phase = "ready" => FullyPopulated(config)

\* C19: for a settings file made from a full document by removing fields,
\* load, save of the loaded configuration and a fresh load end with every
\* field populated: the file's fields with their stored values, the missing
\* ones with their defaults.
C19_LoadSaveLoadFillsDefaults ==
    (roundTrip = "reloaded" /\ ~IsNull(origFile) /\ ~IsCorrupt(origFile)) =>
        /\ FullyPopulated(config)
        /\ config = Filled(build, origFile)

\* C20: after a save-config of a fully populated configuration, get-config
\* returns a document equal to it in every field, with no field of the
\* file it replaced left over.
C20_SaveThenGetRoundTrips ==
    (lastStore.saved /\ FullyPopulated(config)) =>
        /\ GetConfig(host, persisted) = config
        /\ DOMAIN persisted = DOMAIN config

C20_Witness ==
    /\ lastStore.op = "save"
    /\ "features.debugMode" \in lastStore.prev
    /\ "features.debugMode" \notin DOMAIN persisted
    /\ FullyPopulated(config)
    /\ persisted = config
    /\ config["display.dimAfter"] = 300

----------------------------------------------------------------------------
(* Properties of the save-config traffic, checked under SpecSave *)

\* C21: updateSetting changes exactly the field it names in the in-memory
\* configuration and leaves every other field as it was, and once the write
\* of its save has completed a fresh get-config returns the new value
C21_UpdateSettingPersists ==
    /\ lastUpd.exact
    /\ lastUpd.written =>
          LET got == GetConfig(host, persisted)
          IN /\ ~IsNull(got)
             /\ ~IsRejected(got)
             /\ lastUpd.path \in DOMAIN got
             /\ got[lastUpd.path] = lastUpd.value

\* C22: when a write of settings.json fails, save-config resolves to false
\* (never rejects), the failure is logged, the configuration in memory
\* keeps the value just set, and the shell still takes events
C22_WriteFailureIsSoft ==
    restarts = 0 /\ saveSeen \cap {"false", "rejected"} # {} =>
        /\ "rejected" \notin saveSeen
        /\ "save-config" \in logs
        /\ phase = "ready"
        /\ config[lastUpd.path] = lastUpd.value
        /\ ENABLED DomEvent("mousedown")
        /\ ENABLED AddTime(OneMinute)

\* C23: a get-config that runs while a save-config write is under way
\* gets a complete document, never null or an error from a half-written
\* file
C23_ReadNeverSeesHalfWrittenFile ==
    lastStore.op = "load" /\ readOverlap => ~lastStore.failed

\* C24: after several updateSetting calls in a row, once every write has
\* completed settings.json holds the latest in-memory configuration
C24_LastSaveWins ==
    /\ updates > 0
    /\ writes = <<>>
    /\ saveSeen = {"true"}
    /\ phase = "ready"
    /\ restarts = 0
    => GetConfig(host, persisted) = config

----------------------------------------------------------------------------
(* Properties of the flash-update pipeline, checked under SpecFlash *)

\* C25: a file placed in the flash directory is announced to the renderer
\* at most once, whatever the interleaving of interval ticks, directory
\* listings, relocations and add events
C25_AtMostOneNotificationPerFile ==
    \A f \in FlashNames : sent[f] <= 1

\* C26: every .js file a scan finds in the flash directory is announced
\* under its own name: a scan that finds .js files announces each of them,
\* none is relocated unannounced, and an add event for a .js file
\* announces it
C26_EveryJsFileIsReported ==
    /\ lastFlash.op = "scan" /\ ~lastFlash.err =>
          JsFiles(lastFlash.files) \subseteq lastFlash.told
    /\ \A f \in processedDir : sent[f] >= 1
    /\ lastFlash.op = "add" /\ JsFiles(lastFlash.files) # {} =>
          lastFlash.files \subseteq lastFlash.told

\* C27: a failed listing of the flash directory is logged, announces and
\* moves nothing, and the next interval tick scans again; no error of the
\* detection or relocation path escapes its callback
C27_DetectionErrorsAreSoft ==
    /\ lastFlash.op = "scan" /\ lastFlash.err =>
          /\ "readdir" \in flashLogs
          /\ lastFlash.told = {}
          /\ lastFlash.moved = {}
          /\ polls < MaxPolls => ENABLED PollTick(PollPeriod + 1)
    /\ ~uncaught

\* C28: only names with the .js extension are announced; files with
\* another extension and hidden files are never announced and stay in the
\* flash directory, with the poller as with the watcher
C28_OnlyVisibleJsFilesNotified ==
    \A f \in everDropped :
        ExtName(f) # <<".", "j", "s">> \/ Ignored(f) =>
            sent[f] = 0 /\ f \in flashDir

\* C29: onFlashUpdate returns an unsubscribe function; until it is called
\* every flash-update message runs the callback exactly once, afterwards
\* no message runs it
C29_OnFlashUpdateUnsubscribes ==
    /\ phase = "ready" => cleanup \in {"function", "called"}
    /\ lastFlash.op = "deliver" => lastFlash.runs = 1
    /\ lastFlash.op = "deliver-after-cleanup" => lastFlash.runs = 0


----------------------------------------------------------------------------
(* The timer inside the whole shell: timer requests, setting changes and   *)
(* window reloads interleaved                                              *)

\* largest remaining time the shell specification lets addTime build up
MaxShellSeconds == 65

\* the timer operations, bound by initTimer once init has loaded the
\* configuration
TimerRequest ==
    /\ phase = "ready"
    /\ \/ \E s \in {OneMinute, FiveMinutes, TenMinutes} : AddTime(s)
       \/ ToggleTimer
       \/ PauseButton
       \/ ClearButton
    /\ timerSeconds' <= MaxShellSeconds

\* the callbacks the timer has scheduled: tick, animation frame, fade
TimerCallback ==
    /\ phase = "ready"
    /\ (Tick \/ RafFire \/ FadeFire)

InitShell ==
    /\ InitTimer
    /\ build # "renderer"

NextShell ==
    \/ TimerRequest
    \/ TimerCallback
    \/ \E v \in DimChoices("v141") : UpdateSetting(v)
    \/ Restart
    \/ BootEnd
    \/ LoadConfig

SpecShell == InitShell /\ [][NextShell]_vars

\* C32: no timer operation (add, start, pause, clear, tick, completion)
\* changes the configuration, the settings file or the queue of save-config
\* calls, and after every reload of the window the timer is at remaining 0,
\* not running, with nothing scheduled, whatever it held before.
C32_TimerIsNotPersisted ==
    /\ [][(TimerRequest \/ TimerCallback) =>
             UNCHANGED <<config, persisted, writes, saveSeen, lastStore>>]_vars
    /\ [](last.op = "restart" =>
             (timerSeconds = 0 /\ ~isTimerRunning /\ ~timerInterval
              /\ liveIntervals = 0))

C32_Witness ==
    /\ last.op = "restart"
    /\ last.preSeconds > 0
    /\ last.preRunning
    /\ timerSeconds = 0
    /\ ~isTimerRunning

----------------------------------------------------------------------------
(* Further properties of the countdown timer, checked under SpecTimer *)

\* C33: while the timer runs, after every tick that leaves remaining <= 10
\* the display is red and after every tick that leaves remaining <= the
\* pulse threshold it also pulses, the refresh of the same tick not undoing
\* it; outside the last ten seconds of a running countdown the display is
\* neither red nor pulsing.
C33_UrgentMarkers ==
    /\ (last.op = "tick" /\ isTimerRunning /\ timerSeconds <= UrgentThreshold)
           => timerColor = Red
    /\ (last.op = "tick" /\ isTimerRunning
        /\ timerSeconds <= PulseThreshold(build))
           => timerAnimation = "pulse"
    /\ ~(isTimerRunning /\ timerSeconds <= UrgentThreshold)
           => (timerColor # Red /\ timerAnimation # "pulse")

\* C35: the interval handle is set exactly while the timer runs and at most
\* one tick interval is live, so a tick takes remaining down by at most one,
\* whatever sequence of add, toggle, pause and clear requests occurs.
C35_OneIntervalWhileRunning ==
    /\ timerInterval <=> isTimerRunning
    /\ liveIntervals <= 1
    /\ liveIntervals = (IF isTimerRunning THEN 1 ELSE 0)
    /\ last.op = "tick" => timerSeconds >= last.preSeconds - 1

C35_Witness ==
    /\ last.op = "tick"
    /\ isTimerRunning
    /\ timerInterval
    /\ liveIntervals = 1
    /\ timerSeconds = last.preSeconds - 1
    /\ runCompletions = 0


----------------------------------------------------------------------------
(* Further properties of the flash watcher, checked under SpecFlash *)

\* C39: every firing of the 2000 ms polling interval performs a scan: the
\* lastCheck guard never suppresses a scheduled scan.
C39_EveryFiringScans ==
    lastFlash.op # "suppressed"


----------------------------------------------------------------------------
(* Further properties of the idle tracker, checked under SpecIdle *)

\* C34: every idle countdown, the first one that resetIdleTimer arms at the
\* end of bootSequence included, is armed for the display.dimAfter seconds
\* of the settings file.
C34_CountdownLastsPersistedDimAfter ==
    (lastIdle.reset /\ "display.dimAfter" \in DOMAIN persisted) =>
        idleTimeouts[Len(idleTimeouts)] = persisted["display.dimAfter"]


----------------------------------------------------------------------------
(* The ticker between the idle tracker and the flash notifications: the    *)
(* shell from its construction, one update file dropped                    *)

\* dimAfter of the settings file the ticker specification starts from
TickerDimAfter == 5

InitTicker ==
    /\ build \in {"v140", "v141"}
    /\ host = HostOf(build)
    /\ TimerQuiet
    /\ phase = "boot"
    /\ persisted = With(DefaultConfig(build), "display.dimAfter",
                        TickerDimAfter)
    /\ config = Null
    /\ idleTimer = "null"
    /\ idleTimeouts = <<>>
    /\ bodyOpacity = ""
    /\ tickerShown = FALSE
    /\ lastIdle = [op |-> "init", ev |-> "", ready |-> FALSE, reset |-> FALSE]
    /\ sinceReset = 0
    /\ resetRead = 0
    /\ lastSet = 0
    /\ clock = 12 * 60
    /\ overlay = OverlayUnset
    /\ nsInterval = FALSE
    /\ rolled = 0
    /\ lastNight = NoNight
    /\ win = [start |-> 22 * 60, end |-> 7 * 60]
    /\ elapsed = 0
    /\ nsStartup = "none"
    /\ logs = {}
    /\ lastStore = NoStore
    /\ origFile = persisted
    /\ roundTrip = "none"
    /\ restarts = 0
    /\ IoQuiet
    /\ SubQuiet

NextTicker ==
    \/ BootEnd
    \/ LoadConfig
    \/ DomEvent("mousedown")
    \/ Second
    \/ GoInactive
    \/ DropFile(Update1Js)
    \/ \E d \in TickGaps : PollTick(d)
    \/ ReaddirCallback
    \/ AddEvent
    \/ FlashDelivered
    \/ TickerHideFires

SpecTicker == InitTicker /\ [][NextTicker]_vars

\* C36: whenever the display is DIMMED the idle ticker is visible, also
\* when flash-update notifications (ticker shown, hidden 3 s later)
\* interleave with the idle transitions.
C36_TickerVisibleWhileDimmed ==
    Dimmed => tickerShown


----------------------------------------------------------------------------
(* Further properties of the settings layer, checked under SpecSave *)

\* C37: at most one performance-monitor frame loop is active at any time
\* and none while features.performanceMonitor is off: repeated updateSetting
\* and applyConfig calls start no additional loop, and disabling the feature
\* stops the running one.
C37_AtMostOneFrameLoop ==
    /\ perfLoops <= 1
    /\ ~PerfEnabled(config) => perfLoops = 0

----------------------------------------------------------------------------
(* The life of the main process: its window closed and created again *)

\* the last window is closed: the page is gone; away from macOS
\* 'window-all-closed' quits the application, on macOS the process with its
\* interval or watcher stays
CloseWindow ==
    /\ windowOpen
    /\ windowOpen' = FALSE
    /\ phase' = "closed"
    /\ channel' = <<>>
    /\ listeners' = 0
    /\ cleanup' = IF cleanup = "function" THEN "called" ELSE cleanup
    /\ \E darwin \in BOOLEAN :
         /\ pollers' = IF darwin THEN pollers ELSE 0
         /\ listings' = IF darwin THEN listings ELSE <<>>
         /\ events' = IF darwin THEN events ELSE <<>>
    /\ lastFlash' = [NoFlash EXCEPT !.op = "close"]
    /\ UNCHANGED <<flashDir, processedDir, everDropped, fsFault, sent,
                   uncaught, flashLogs, sinceLastCheck, polls, sentClosed>>
    /\ UNCHANGED <<build, timerVars, histVars, persisted, config, idleTimer,
                   idleTimeouts, bodyOpacity, tickerShown, idleHist,
                   nightVars, nightHist, storeVars, saveVars, readOverlap,
                   delivered, modal, tickerHides, perfLoops>>

\* 'activate' with no window open: createWindow() runs again, opening a
\* window and installing one more interval or watcher
Activate ==
    /\ ~windowOpen
    /\ pollers > 0
    /\ NewShell
    /\ windowOpen' = TRUE
    /\ pollers' = pollers + 1
    /\ lastFlash' = [NoFlash EXCEPT !.op = "activate"]
    /\ UNCHANGED <<flashDir, processedDir, everDropped, fsFault, listings,
                   events, channel, sent, uncaught, flashLogs,
                   sinceLastCheck, polls, sentClosed>>

\* the interval a later createWindow installed fires and passes its own
\* lastCheck guard
ExtraPollTick ==
    /\ host = "main.js"
    /\ pollers > 1
    /\ polls < MaxPolls
    /\ Len(listings) < MaxListings
    /\ polls' = polls + 1
    /\ listings' = Append(listings,
           [err |-> fsFault = "readdir",
            files |-> IF fsFault = "readdir" THEN {} ELSE flashDir])
    /\ lastFlash' = [NoFlash EXCEPT !.op = "tick-extra"]
    /\ UNCHANGED <<flashDir, processedDir, everDropped, fsFault, events,
                   channel, sent, uncaught, flashLogs, sinceLastCheck,
                   pollers, windowOpen, sentClosed>>
    /\ UNCHANGED <<build, timerVars, histVars, idleVars, idleHist, nightVars,
                   nightHist, storeVars, saveVars, readOverlap, subVars>>

InitLifecycle ==
    /\ InitFlash
    /\ fsFault = "none"

NextLifecycle ==
    \/ BootEnd
    \/ LoadConfig
    \/ DropFile(Update1Js)
    \/ \E d \in TickGaps : PollTick(d)
    \/ ExtraPollTick
    \/ ReaddirCallback
    \/ AddEvent
    \/ FlashDelivered
    \/ TickerHideFires
    \/ CloseWindow
    \/ Activate

SpecLifecycle == InitLifecycle /\ [][NextLifecycle]_vars

\* C38: at most one flash-directory poller or watcher is active in the main
\* process at any time, also after all windows were closed and createWindow
\* ran again on 'activate', and no poller sends to a window that has been
\* closed.
C38_OnePollerNoSendToClosedWindow ==
    /\ pollers <= 1
    /\ ~sentClosed


----------------------------------------------------------------------------
(* The start of the main process: ensureSystemDirectories over whatever    *)
(* the user-data directory holds                                           *)

\* the defaultConfig literal of ensureSystemDirectories: the fields and
\* values of v1.4.1's getDefaultConfig, the version that of the main process
MainDefaultConfig(h) ==
    With(DefaultConfig("v141"), "version",
         IF h = "chokidar" THEN "1.4.0" ELSE "1.4.1")

\* the directories after the forEach of mkdirSync(dir, { recursive: true })
DirsAfterEnsure(d) == d \cup SystemDirs

\* settings.json after ensureSystemDirectories: written only when
\* existsSync(configPath) is false
ConfigAfterEnsureReset(h, f) == FileAfterSave(f, MainDefaultConfig(h))

ConfigAfterEnsure(h, f) ==
    IF IsNull(f) THEN FileAfterSave(f, MainDefaultConfig(h)) ELSE f

\* ensureSystemDirectories(), called from app.whenReady at every start.
\* With a disk that refuses writes the first mkdirSync or the writeFileSync
\* it needs throws and nothing is changed
EnsureSystemDirectories ==
    /\ LET threw == ~diskOk /\ (dirs # SystemDirs \/ IsNull(persisted))
       IN /\ dirs' = IF threw THEN dirs ELSE DirsAfterEnsure(dirs)
          /\ persisted' = IF threw THEN persisted
                          ELSE ConfigAfterEnsure(host, persisted)
          /\ lastStore' = [op |-> "ensure", failed |-> threw,
                           saved |-> ~threw /\ IsNull(persisted),
                           prev |-> DOMAIN persisted]
    /\ origFile' = persisted
    /\ UNCHANGED <<build, timerVars, histVars, phase, config, idleTimer,
                   idleTimeouts, bodyOpacity, tickerShown, idleHist,
                   nightVars, nightHist, host, logs, roundTrip, restarts,
                   writes, diskOk, saveSeen, updates, lastUpd, readOverlap,
                   flashVars, subVars>>

\* the user-data directory as a start of the application may find it: any
\* of the directories there or not, settings.json (if its directory is
\* there) missing, unreadable or holding some document
InitEnsure ==
    /\ build \in {"v140", "v141"}
    /\ host = HostOf(build)
    /\ TimerQuiet
    /\ phase = "boot"
    /\ dirs \in {d \in SUBSET SystemDirs : d # {} => "system" \in d}
    /\ IF "system/config" \in dirs
       THEN \/ persisted \in {Null, Corrupt}
            \/ \E shape \in {"v140", "v141"}, gone \in SUBSET RemovableFields :
                 persisted = DropAll(CustomConfig(shape), gone)
       ELSE persisted = Null
    /\ config = Null
    /\ idleTimer = "null"
    /\ idleTimeouts = <<>>
    /\ bodyOpacity = ""
    /\ tickerShown = FALSE
    /\ lastIdle = [op |-> "init", ev |-> "", ready |-> FALSE, reset |-> FALSE]
    /\ sinceReset = 0
    /\ resetRead = 0
    /\ lastSet = 0
    /\ clock = 12 * 60
    /\ overlay = OverlayUnset
    /\ nsInterval = FALSE
    /\ rolled = 0
    /\ lastNight = NoNight
    /\ win = [start |-> 22 * 60, end |-> 7 * 60]
    /\ elapsed = 0
    /\ nsStartup = "none"
    /\ logs = {}
    /\ lastStore = NoStore
    /\ origFile = persisted
    /\ roundTrip = "none"
    /\ restarts = 0
    /\ writes = <<>>
    /\ saveSeen = {}
    /\ updates = 0
    /\ lastUpd = NoUpdate
    /\ readOverlap = FALSE
    /\ diskOk \in BOOLEAN
    /\ fsFault = "none"
    /\ WatcherQuiet
    /\ SubQuiet

NextEnsure == EnsureSystemDirectories

SpecEnsure == InitEnsure /\ [][NextEnsure]_vars

\* C31: after ensureSystemDirectories has run, system/modules, system/flash
\* and system/config exist and settings.json exists; it holds the full
\* default document if there was no file, and what it held before if there
\* was one, so a run after a run changes nothing on disk.
C31_EnsureCreatesAndPreserves ==
    /\ [](lastStore.op = "ensure" /\ ~lastStore.failed =>
            /\ SystemDirs \subseteq dirs
            /\ ~IsNull(persisted)
            /\ IsNull(origFile) =>
                  (FullyPopulated(persisted)
                   /\ persisted = MainDefaultConfig(host))
            /\ ~IsNull(origFile) => persisted = origFile)
    /\ [][(lastStore.op = "ensure" /\ ~lastStore.failed
           /\ EnsureSystemDirectories) => UNCHANGED <<dirs, persisted>>]_vars

C31_Witness ==
    /\ lastStore.op = "ensure"
    /\ ~lastStore.failed
    /\ lastStore.saved
    /\ IsNull(origFile)
    /\ persisted = MainDefaultConfig(host)
    /\ dirs = SystemDirs

============================================================================
